---- MODULE Spec2Model ----
(***************************************************************************)
(* Model of the waswolf bot's state-machine engine:                        *)
(*   - the combinator library (statemachines/src: Next, WithState,         *)
(*     WithLazyState, Chained),                                            *)
(*   - the registry of running machines (src/sms.rs) and                   *)
(*   - the background notifier (src/notifier.rs).                          *)
(***************************************************************************)
EXTENDS Integers, Sequences, FiniteSets, TLC

(***************************************************************************)
(* Bounds                                                                  *)
(***************************************************************************)
\* number of top-level transition calls made on the library instance
MaxCalls == 4

\* values used for arguments, produced values, states and errors
Vals == {0, 1}
Ctxs == {"c0", "c1"}

(***************************************************************************)
(* TransitionResult<N, E> (statemachines/src/traits.rs)                    *)
(***************************************************************************)
NoTransition == [t |-> "NoTransition"]
Done(v) == [t |-> "Done", v |-> v]
Error(e) == [t |-> "Error", e |-> e]
\* Option::None of the `done` / `state` fields
None == [t |-> "None"]
Some(x) == [t |-> "Some", x |-> x]

Results == {NoTransition} \cup {Done(v) : v \in Vals} \cup {Error(e) : e \in Vals}
IsTerminal(r) == r.t \in {"Done", "Error"}

\* What the wrapped transition function does when it is invoked: the result
\* it returns and (for the stateful combinators) the state it hands back.
\* The function is an arbitrary FnMut, so its outcome is an input of the call.
Outcomes == [res : Results, st : Vals]

(***************************************************************************)
(* Constructors                                                            *)
(***************************************************************************)
NewNext(id) == [kind |-> "Next", id |-> id, done |-> None]
NewWithState(id, initial_state) ==
    [kind |-> "WithState", id |-> id, state |-> Some(initial_state), done |-> None]
NewWithLazyState(id) ==
    [kind |-> "WithLazyState", id |-> id, state |-> None, done |-> None]
NewChained(id, first, second) ==
    [kind |-> "Chained", id |-> id, first |-> first, second |-> second,
     result |-> [tag |-> "Empty"]]

(***************************************************************************)
(* Observations of one transition call: which wrapped functions ran, with  *)
(* what, and what every (sub-)machine returned.                            *)
(***************************************************************************)
\* the wrapped transition function of leaf `id` ran, with this state (NoState
\* for Next, which has none)
FnEv(id, ctx, arg, st) == [ev |-> "fn", id |-> id, ctx |-> ctx, arg |-> arg, st |-> st]
\* the wrapped transition function of the stateful leaf `id` handed back state st
RetEv(id, st) == [ev |-> "fnret", id |-> id, st |-> st]
\* the init function of WithLazyState `id` ran
InitEv(id, arg) == [ev |-> "init", id |-> id, arg |-> arg]
\* the transition method of node `id` was called with (ctx, arg) and returned res
CallEv(id, ctx, arg, res) == [ev |-> "call", id |-> id, ctx |-> ctx, arg |-> arg, res |-> res]
NoState == -1

\* init_fn of WithLazyState: the callers in this repository clone the argument
InitFn(arg) == arg

(***************************************************************************)
(* Next::transition                                                        *)
(***************************************************************************)
NextTransitionNoLatch(sm, ctx, arg, out) ==
    [sm  |-> IF IsTerminal(out.res) THEN [sm EXCEPT !.done = out.res] ELSE sm,
     res |-> out.res,
     inv |-> <<FnEv(sm.id, ctx, arg, NoState)>>]

NextTransition(sm, ctx, arg, out) ==
    IF sm.done # None
    THEN [sm |-> sm, res |-> sm.done, inv |-> <<>>]
    ELSE [sm  |-> IF IsTerminal(out.res) THEN [sm EXCEPT !.done = out.res] ELSE sm,
          res |-> out.res,
          inv |-> <<FnEv(sm.id, ctx, arg, NoState)>>]

(***************************************************************************)
(* WithState::transition                                                   *)
(***************************************************************************)
\* a slip: the state handed back with NoTransition is dropped, the old one kept
WithStateKeepsOld(sm, ctx, arg, out) ==
    IF sm.done # None
    THEN [sm |-> sm, res |-> sm.done, inv |-> <<>>]
    ELSE LET inner_state == sm.state.x
             stored == [sm EXCEPT !.state = Some(out.st)]
         IN [sm  |-> IF IsTerminal(out.res) THEN [stored EXCEPT !.done = out.res]
                                            ELSE sm,
             res |-> out.res,
             inv |-> <<FnEv(sm.id, ctx, arg, inner_state), RetEv(sm.id, out.st)>>]

WithStateTransition(sm, ctx, arg, out) ==
    IF sm.done # None
    THEN [sm |-> sm, res |-> sm.done, inv |-> <<>>]
    ELSE LET inner_state == sm.state.x
             stored == [sm EXCEPT !.state = Some(out.st)]
         IN [sm  |-> IF IsTerminal(out.res) THEN [stored EXCEPT !.done = out.res]
                                            ELSE stored,
             res |-> out.res,
             inv |-> <<FnEv(sm.id, ctx, arg, inner_state), RetEv(sm.id, out.st)>>]

(***************************************************************************)
(* WithLazyState::transition                                               *)
(***************************************************************************)
WithLazyStateTransition(sm, ctx, arg, out) ==
    LET fresh == sm.state = None
        inited == IF fresh THEN [sm EXCEPT !.state = Some(InitFn(arg))] ELSE sm
        initev == IF fresh THEN <<InitEv(sm.id, arg)>> ELSE <<>>
    IN IF inited.done # None
       THEN [sm |-> inited, res |-> inited.done, inv |-> initev]
       ELSE LET inner_state == inited.state.x
                stored == [inited EXCEPT !.state = Some(out.st)]
            IN [sm  |-> IF IsTerminal(out.res) THEN [stored EXCEPT !.done = out.res]
                                               ELSE stored,
                res |-> out.res,
                inv |-> initev \o <<FnEv(sm.id, ctx, arg, inner_state),
                                    RetEv(sm.id, out.st)>>]

(***************************************************************************)
(* Chained::transition and the dynamic dispatch of AsyncTransition         *)
(***************************************************************************)
RECURSIVE Transition(_, _, _, _)

\* a slip in the Empty branch: the first machine's error is mapped like its Done
ChainedEmptySwallow(sm, ctx, arg, out) ==
    LET r == Transition(sm.first, ctx, arg, out)
        fed == [sm EXCEPT !.first = r.sm]
    IN IF r.res.t = "NoTransition"
       THEN [sm |-> fed, res |-> NoTransition, inv |-> r.inv]
       ELSE [sm  |-> [fed EXCEPT !.result = [tag |-> "First", res |-> r.res]],
             res |-> NoTransition,
             inv |-> r.inv]

\* result is StateResult::Empty: the stimulus goes to the first machine
ChainedEmpty(sm, ctx, arg, out) ==
    LET r == Transition(sm.first, ctx, arg, out)
        fed == [sm EXCEPT !.first = r.sm]
    IN IF r.res.t = "NoTransition"
       THEN [sm |-> fed, res |-> NoTransition, inv |-> r.inv]
       ELSE [sm  |-> [fed EXCEPT !.result = [tag |-> "First", res |-> r.res]],
             res |-> IF r.res.t = "Done" THEN NoTransition ELSE Error(r.res.e),
             inv |-> r.inv]

\* the earlier Chained (src/src/messages/chained.rs): the second machine's
\* result is not kept, every call is forwarded to it
ChainedFirstNoCache(sm, ctx, arg, out) ==
    IF sm.result.res.t = "Error"
    THEN [sm |-> sm, res |-> Error(sm.result.res.e), inv |-> <<>>]
    ELSE LET intermediate == sm.result.res.v
             r == Transition(sm.second, ctx, intermediate, out)
         IN [sm |-> [sm EXCEPT !.second = r.sm], res |-> r.res, inv |-> r.inv]

\* the second machine is handed the stimulus instead of the first one's value
ChainedFirstWrongArg(sm, ctx, arg, out) ==
    IF sm.result.res.t = "Error"
    THEN [sm |-> sm, res |-> Error(sm.result.res.e), inv |-> <<>>]
    ELSE LET r == Transition(sm.second, ctx, arg, out)
             fed == [sm EXCEPT !.second = r.sm]
         IN IF r.res.t = "NoTransition"
            THEN [sm |-> fed, res |-> r.res, inv |-> r.inv]
            ELSE [sm  |-> [fed EXCEPT !.result = [tag |-> "Second", res |-> r.res]],
                  res |-> r.res,
                  inv |-> r.inv]

\* result is StateResult::First(first_res): the first machine has completed
ChainedFirst(sm, ctx, arg, out) ==
    IF sm.result.res.t = "Error"
    THEN [sm |-> sm, res |-> Error(sm.result.res.e), inv |-> <<>>]
    ELSE LET intermediate == sm.result.res.v
             r == Transition(sm.second, ctx, intermediate, out)
             fed == [sm EXCEPT !.second = r.sm]
         IN IF r.res.t = "NoTransition"
            THEN [sm |-> fed, res |-> r.res, inv |-> r.inv]
            ELSE [sm  |-> [fed EXCEPT !.result = [tag |-> "Second", res |-> r.res]],
                  res |-> r.res,
                  inv |-> r.inv]

\* result is StateResult::Second(second_res): the chain has completed
ChainedSecond(sm) ==
    [sm |-> sm, res |-> sm.result.res, inv |-> <<>>]

ChainedTransition(sm, ctx, arg, out) ==
    CASE sm.result.tag = "Empty" -> ChainedEmpty(sm, ctx, arg, out)
      [] sm.result.tag = "First" -> ChainedFirst(sm, ctx, arg, out)
      [] sm.result.tag = "Second" -> ChainedSecond(sm)

Transition(sm, ctx, arg, out) ==
    LET r == CASE sm.kind = "Next" -> NextTransition(sm, ctx, arg, out)
               [] sm.kind = "WithState" -> WithStateTransition(sm, ctx, arg, out)
               [] sm.kind = "WithLazyState" -> WithLazyStateTransition(sm, ctx, arg, out)
               [] sm.kind = "Chained" -> ChainedTransition(sm, ctx, arg, out)
    IN [r EXCEPT !.inv = Append(r.inv, CallEv(sm.id, ctx, arg, r.res))]

(***************************************************************************)
(* A library instance under test: one of a few shapes, driven by a caller  *)
(* that makes up to MaxCalls transition calls with arbitrary stimuli.      *)
(***************************************************************************)
VARIABLES
    sm,         \* the instance (a tree of combinators)
    ret,        \* what the latest top-level transition call returned
    ncalls,     \* number of top-level transition calls made
    latchedAt,  \* number of the call that first returned Done/Error (0: none yet)
    obs         \* per node: what has been observed of it so far

libvars == <<sm, ret, ncalls, latchedAt, obs>>

(***************************************************************************)
(* The registry (StateMachineMap, src/sms.rs), the notify queue and the    *)
(* background notifier (src/notifier.rs), and the tasks that use them.     *)
(***************************************************************************)
VARIABLES
    map,             \* StateMachineMap::map: the message ids that have an entry
    mach,            \* the MessageStateMachine behind each message id
    lock,            \* the Mutex around each machine: "free" or the task holding it
    running_rounds,  \* StateMachineMap::running_rounds: guild -> Option<MessageId>
    rounds_lock,     \* the Mutex around running_rounds: "free" or the task holding it
    queue,           \* the unbounded channel of (MessageId, GuildId) notifications
    nextId,          \* number of message ids the platform has handed out
    pc,              \* where each worker task is
    loc,             \* each worker task's local variables
    npc,             \* where the background notifier is
    nloc             \* the background notifier's local variables

regvars == <<map, mach, lock, running_rounds, rounds_lock, queue, nextId, pc, loc, npc, nloc>>

(***************************************************************************)
(* The state shared by a round's machine and its headcount sub-machines,   *)
(* and the record of the latest call made on the program.                  *)
(***************************************************************************)
VARIABLES
    count_queue,     \* RoleCounts::count_queue: the SegQueue of (role, count) pairs
    call             \* the latest call: what was called, with what, and its result

roundvars == <<count_queue, call>>

(***************************************************************************)
(* The storage of a guild's role configs (src/storage.rs): the cache in    *)
(* front of the backend, and the backend's own list.                       *)
(***************************************************************************)
VARIABLES
    cache,           \* Cache::roles for the guild: None (no entry) or Some(list of configs)
    backend          \* the role configs that the storage backend holds for the guild

storevars == <<cache, backend>>
vars == <<libvars, regvars, roundvars, storevars>>

\* Storage::new: an empty cache in front of a backend that holds no role yet
StoreStart == cache = [t |-> "None"] /\ backend = << >>

\* no call has been made yet
NoCall == [op |-> "none"]

NodeIds == 1..5

Shapes ==
    { NewNext(1),
      NewWithState(1, 0),
      NewWithLazyState(1),
      NewChained(4, NewNext(1), NewNext(2)),
      NewChained(4, NewWithState(1, 0), NewWithLazyState(2)),
      NewChained(5, NewChained(4, NewNext(1), NewWithState(2, 0)), NewWithLazyState(3)),
      NewChained(5, NewNext(1), NewChained(4, NewWithLazyState(2), NewNext(3))) }

NoObs ==
    [calls |-> 0, ctx |-> "none", arg |-> -1, ret |-> None,
     n |-> 0, fctx |-> "none", farg |-> -1, fst |-> NoState, rst |-> NoState,
     inits |-> 0, initarg |-> -1]

ApplyEvent(o, e) ==
    CASE e.ev = "fn" ->
           [o EXCEPT ![e.id] = [@ EXCEPT !.n = @ + 1, !.fctx = e.ctx,
                                         !.farg = e.arg, !.fst = e.st]]
      [] e.ev = "fnret" ->
           [o EXCEPT ![e.id] = [@ EXCEPT !.rst = e.st]]
      [] e.ev = "init" ->
           [o EXCEPT ![e.id] = [@ EXCEPT !.inits = @ + 1, !.initarg = e.arg]]
      [] e.ev = "call" ->
           [o EXCEPT ![e.id] = [@ EXCEPT !.calls = @ + 1, !.ctx = e.ctx,
                                         !.arg = e.arg, !.ret = e.res]]

RECURSIVE ApplyEvents(_, _)
ApplyEvents(o, evs) ==
    IF evs = <<>> THEN o ELSE ApplyEvents(ApplyEvent(o, Head(evs)), Tail(evs))

(***************************************************************************)
(* Bounds and domains of the registry model                                *)
(***************************************************************************)
\* number of message ids the platform hands out (machines ever created)
MaxMsgs == 2
\* number of notifications the producers put on the queue at the same time
MaxQueue == 1

Ids == 1..MaxMsgs
\* one guild: every round, sub-machine and notification belongs to it
Guilds == {"g1"}
Workers == {"w1", "w2"}
Notifier == "notifier"

\* what a registered machine's phase logic does with one event
RegOutcomes == {[res |-> r, st |-> 0] : r \in {NoTransition, Done(0), Error(0)}}

\* MessageStateMachine::new(guild_id, message_id, sm)
NewMessageStateMachine(guild_id, message_id, m) ==
    [guild_id |-> guild_id, message_id |-> message_id, sm |-> m]
NoMachine == NewMessageStateMachine("none", 0, NewNext(1))

NoLoc == [msg |-> 0, guild |-> "none"]

\* StateMachineMap::new and an idle notifier with an empty queue
RegStart ==
    /\ map = {}
    /\ mach = [i \in Ids |-> NoMachine]
    /\ lock = [i \in Ids |-> "free"]
    /\ running_rounds = << >>
    /\ rounds_lock = "free"
    /\ queue = << >>
    /\ nextId = 0
    /\ pc = [t \in Workers |-> "idle"]
    /\ loc = [t \in Workers |-> NoLoc]
    /\ npc = "recv"
    /\ nloc = NoLoc

\* the group's reservation names message id m
Reserves(rr, g, m) == g \in DOMAIN rr /\ rr[g] = Some(m)

\* BTreeMap operations on running_rounds
Insert(rr, g, v) == [x \in (DOMAIN rr) \cup {g} |-> IF x = g THEN v ELSE rr[x]]
Remove(rr, g) == [x \in (DOMAIN rr) \ {g} |-> rr[x]]

\* self.running_rounds.lock().await can complete
RoundsLockFreeAlways == TRUE
RoundsLockFree == rounds_lock = "free"

\* the machine's Mutex can be taken (lock().await completes, try_lock is Ok)
MachineLockFreeAlways(m) == TRUE
MachineLockFree(m) == lock[m] = "free"

\* MessageStateMachine::transition: forwards to the boxed machine
MessageTransition(msm, ctx, arg, out) ==
    LET r == Transition(msm.sm, ctx, arg, out)
    IN [msm |-> [msm EXCEPT !.sm = r.sm], res |-> r.res]

GoIdle(t) ==
    /\ pc' = [pc EXCEPT ![t] = "idle"]
    /\ loc' = [loc EXCEPT ![t] = NoLoc]

(***************************************************************************)
(* Starting a round: reserve_running_game, the entry message,              *)
(* mark_running_game, add                                                  *)
(***************************************************************************)
Starting == {t \in Workers : pc[t] \in {"r_check", "r_insert", "create"}}

\* reserve_running_game: self.running_rounds.lock().await
ReserveLock(t, g) ==
    /\ pc[t] = "idle"
    /\ nextId + Cardinality(Starting) < MaxMsgs
    /\ RoundsLockFree
    /\ rounds_lock' = t
    /\ pc' = [pc EXCEPT ![t] = "r_check"]
    /\ loc' = [loc EXCEPT ![t] = [NoLoc EXCEPT !.guild = g]]
    /\ UNCHANGED <<map, mach, lock, running_rounds, queue, nextId, npc, nloc, libvars, storevars, roundvars>>

\* reserve_running_game: current_rounds.contains_key(&guild); Err(()) if so
ReserveCheck(t) ==
    /\ pc[t] = "r_check"
    /\ IF loc[t].guild \in DOMAIN running_rounds
       THEN /\ rounds_lock' = "free"
            /\ GoIdle(t)
       ELSE /\ pc' = [pc EXCEPT ![t] = "r_insert"]
            /\ UNCHANGED <<rounds_lock, loc>>
    /\ UNCHANGED <<map, mach, lock, running_rounds, queue, nextId, npc, nloc, libvars, storevars, roundvars>>

\* a reserve_running_game that hands its guard to the caller, who still holds
\* it while the entry message is posted
ReserveInsertKeepsLock(t) ==
    /\ pc[t] = "r_insert"
    /\ running_rounds' = Insert(running_rounds, loc[t].guild, None)
    /\ pc' = [pc EXCEPT ![t] = "create"]
    /\ UNCHANGED <<map, mach, lock, rounds_lock, queue, nextId, loc, npc, nloc, libvars, storevars, roundvars>>

\* reserve_running_game: current_rounds.insert(guild, None); Ok(())
ReserveInsert(t) ==
    /\ pc[t] = "r_insert"
    /\ running_rounds' = Insert(running_rounds, loc[t].guild, None)
    /\ rounds_lock' = "free"
    /\ pc' = [pc EXCEPT ![t] = "create"]
    /\ UNCHANGED <<map, mach, lock, queue, nextId, loc, npc, nloc, libvars, storevars, roundvars>>

\* the caller posts the round's entry message and learns its id
CreateMessage(t) ==
    /\ pc[t] = "create"
    /\ nextId < MaxMsgs
    /\ nextId' = nextId + 1
    /\ loc' = [loc EXCEPT ![t].msg = nextId + 1]
    /\ pc' = [pc EXCEPT ![t] = "m_lock"]
    /\ UNCHANGED <<map, mach, lock, running_rounds, rounds_lock, queue, npc, nloc, libvars, storevars, roundvars>>

\* posting the entry message fails: the caller gives up
CreateMessageFails(t) ==
    /\ pc[t] = "create"
    /\ GoIdle(t)
    /\ UNCHANGED <<map, mach, lock, running_rounds, rounds_lock, queue, nextId, npc, nloc, libvars, storevars, roundvars>>

\* mark_running_game: self.running_rounds.lock().await
MarkLock(t) ==
    /\ pc[t] = "m_lock"
    /\ RoundsLockFree
    /\ rounds_lock' = t
    /\ pc' = [pc EXCEPT ![t] = "m_set"]
    /\ UNCHANGED <<map, mach, lock, running_rounds, queue, nextId, loc, npc, nloc, libvars, storevars, roundvars>>

\* mark_running_game as its doc comment has it: registers a group that has no
\* entry, Err for a group that has one
mark_running_game_documented(rr, guild, message_id) ==
    IF guild \in DOMAIN rr
    THEN [rr |-> rr, ok |-> FALSE]
    ELSE [rr |-> Insert(rr, guild, Some(message_id)), ok |-> TRUE]

\* mark_running_game: the body under the lock
mark_running_game(rr, guild, message_id) ==
    IF guild \in DOMAIN rr
    THEN [rr |-> [rr EXCEPT ![guild] = Some(message_id)], ok |-> TRUE]
    ELSE [rr |-> rr, ok |-> FALSE]

MarkSet(t) ==
    /\ pc[t] = "m_set"
    /\ LET r == mark_running_game(running_rounds, loc[t].guild, loc[t].msg)
       IN /\ running_rounds' = r.rr
          /\ rounds_lock' = "free"
          /\ IF r.ok
             THEN pc' = [pc EXCEPT ![t] = "add"] /\ UNCHANGED loc
             ELSE GoIdle(t)
    /\ UNCHANGED <<map, mach, lock, queue, nextId, npc, nloc, libvars, storevars, roundvars>>

\* StateMachineMap::add(message_id, sm)
Add(t) ==
    /\ pc[t] = "add"
    /\ map' = map \cup {loc[t].msg}
    /\ mach' = [mach EXCEPT ![loc[t].msg] =
                   NewMessageStateMachine(loc[t].guild, loc[t].msg, NewNext(1))]
    /\ GoIdle(t)
    /\ UNCHANGED <<lock, running_rounds, rounds_lock, queue, nextId, npc, nloc, libvars, storevars, roundvars>>

(***************************************************************************)
(* Delivering a platform event: update, try_lock_update, update_inner      *)
(***************************************************************************)
\* update: self.map.get(&message_id), return if there is no entry
UpdateGet(t, m) ==
    /\ pc[t] = "idle"
    /\ m \in 1..nextId
    /\ IF m \in map
       THEN /\ pc' = [pc EXCEPT ![t] = "u_lock"]
            /\ loc' = [loc EXCEPT ![t] = [NoLoc EXCEPT !.msg = m]]
       ELSE UNCHANGED <<pc, loc>>
    /\ UNCHANGED <<map, mach, lock, running_rounds, rounds_lock, queue, nextId, npc, nloc, libvars, storevars, roundvars>>

\* update: value.lock().await
UpdateLock(t) ==
    /\ pc[t] = "u_lock"
    /\ MachineLockFree(loc[t].msg)
    /\ lock' = [lock EXCEPT ![loc[t].msg] = t]
    /\ pc' = [pc EXCEPT ![t] = "transition"]
    /\ UNCHANGED <<map, mach, running_rounds, rounds_lock, queue, nextId, loc, npc, nloc, libvars, storevars, roundvars>>

\* try_lock_update: get the entry, Ok(()) if there is none; value.try_lock(),
\* Err(()) if the machine is locked
TryLockUpdate(t, m) ==
    /\ pc[t] = "idle"
    /\ m \in 1..nextId
    /\ IF m \in map /\ MachineLockFree(m)
       THEN /\ lock' = [lock EXCEPT ![m] = t]
            /\ pc' = [pc EXCEPT ![t] = "transition"]
            /\ loc' = [loc EXCEPT ![t] = [NoLoc EXCEPT !.msg = m]]
       ELSE UNCHANGED <<lock, pc, loc>>
    /\ UNCHANGED <<map, mach, running_rounds, rounds_lock, queue, nextId, npc, nloc, libvars, storevars, roundvars>>

\* during its transition the round's machine creates a sub-machine with a
\* message of its own, for the same guild, and adds it; the phase logic runs
\* only while the machine has not latched a result
\* (GeneralWerewolfState<RoleCounts>::new)
AddSub(t) ==
    /\ pc[t] = "transition"
    /\ mach[loc[t].msg].sm.done = None
    /\ Reserves(running_rounds, mach[loc[t].msg].guild_id, loc[t].msg)
    /\ nextId + Cardinality(Starting) < MaxMsgs
    /\ nextId' = nextId + 1
    /\ map' = map \cup {nextId + 1}
    /\ mach' = [mach EXCEPT ![nextId + 1] =
                   NewMessageStateMachine(mach[loc[t].msg].guild_id, nextId + 1, NewNext(1))]
    /\ UNCHANGED <<lock, running_rounds, rounds_lock, queue, pc, loc, npc, nloc, libvars, storevars, roundvars>>

\* during the transition a phase calls NOTIFY_SM_QUEUE.notify(msg_id, guild_id)
\* for the round of its guild (the round's machine for itself, a sub-machine
\* for the round it belongs to)
NotifyCall(t, m) ==
    /\ pc[t] = "transition"
    /\ mach[loc[t].msg].sm.done = None
    /\ m \in map
    /\ mach[m].guild_id = mach[loc[t].msg].guild_id
    /\ Len(queue) < MaxQueue
    /\ queue' = Append(queue, <<m, mach[m].guild_id>>)
    /\ UNCHANGED <<map, mach, lock, running_rounds, rounds_lock, nextId, pc, loc, npc, nloc, libvars, storevars, roundvars>>

\* update_inner: sm.transition(context, ()) returns; on Done or Error the
\* entry is removed from the map, on NoTransition the call is over
UpdateInner(t) ==
    /\ pc[t] = "transition"
    /\ \E out \in RegOutcomes :
         LET m == loc[t].msg
             r == MessageTransition(mach[m], "Event", 0, out)
         IN /\ mach' = [mach EXCEPT ![m] = r.msm]
            /\ IF IsTerminal(r.res)
               THEN /\ map' = map \ {m}
                    /\ pc' = [pc EXCEPT ![t] = "rlock"]
                    /\ UNCHANGED loc
                    /\ UNCHANGED lock
               ELSE /\ lock' = [lock EXCEPT ![m] = "free"]
                    /\ GoIdle(t)
                    /\ UNCHANGED map
    /\ UNCHANGED <<running_rounds, rounds_lock, queue, nextId, npc, nloc, libvars, storevars, roundvars>>

\* update_inner: self.running_rounds.lock().await
CleanupLock(t) ==
    /\ pc[t] = "rlock"
    /\ RoundsLockFree
    /\ rounds_lock' = t
    /\ pc' = [pc EXCEPT ![t] = "cleanup"]
    /\ UNCHANGED <<map, mach, lock, running_rounds, queue, nextId, loc, npc, nloc, libvars, storevars, roundvars>>

\* a clean-up that drops every reservation
RemoveReservationAll(rr, guild_id, msg_id) == << >>

\* a clean-up that drops the guild's reservation whatever message it names
RemoveReservationOfGuild(rr, guild_id, msg_id) ==
    IF guild_id \in DOMAIN rr THEN Remove(rr, guild_id) ELSE rr

\* update_inner: the reservation is removed if it names this machine's message
RemoveReservation(rr, guild_id, msg_id) ==
    IF guild_id \in DOMAIN rr /\ rr[guild_id] = Some(msg_id)
    THEN Remove(rr, guild_id)
    ELSE rr

\* a clean-up that removes the reservation of the machine's guild without
\* comparing the message id
CleanupOfGuild(t) ==
    /\ pc[t] = "cleanup"
    /\ LET msm == mach[loc[t].msg]
       IN running_rounds' = IF msm.guild_id \in DOMAIN running_rounds
                            THEN Remove(running_rounds, msm.guild_id)
                            ELSE running_rounds
    /\ rounds_lock' = "free"
    /\ lock' = [lock EXCEPT ![loc[t].msg] = "free"]
    /\ GoIdle(t)
    /\ UNCHANGED <<map, mach, queue, nextId, npc, nloc, libvars, storevars, roundvars>>

Cleanup(t) ==
    /\ pc[t] = "cleanup"
    /\ LET msm == mach[loc[t].msg]
       IN running_rounds' = RemoveReservation(running_rounds, msm.guild_id, msm.message_id)
    /\ rounds_lock' = "free"
    /\ lock' = [lock EXCEPT ![loc[t].msg] = "free"]
    /\ GoIdle(t)
    /\ UNCHANGED <<map, mach, queue, nextId, npc, nloc, libvars, storevars, roundvars>>

(***************************************************************************)
(* background_notifier                                                     *)
(***************************************************************************)
\* queue.recv().await, then SMMap.get(&msg_id); continue if there is no entry
NotifierRecv ==
    /\ npc = "recv"
    /\ queue # << >>
    /\ queue' = Tail(queue)
    /\ IF Head(queue)[1] \in map
       THEN /\ npc' = "try"
            /\ nloc' = [NoLoc EXCEPT !.msg = Head(queue)[1], !.guild = Head(queue)[2]]
       ELSE UNCHANGED <<npc, nloc>>
    /\ UNCHANGED <<map, mach, lock, running_rounds, rounds_lock, nextId, pc, loc, libvars, storevars, roundvars>>

\* a notifier that waits for the machine's lock
NotifierTryBlocking ==
    /\ npc = "try"
    /\ MachineLockFree(nloc.msg)
    /\ lock' = [lock EXCEPT ![nloc.msg] = Notifier]
    /\ npc' = "transition"
    /\ UNCHANGED <<map, mach, running_rounds, rounds_lock, queue, nextId, pc, loc, nloc, libvars, storevars, roundvars>>

\* a notifier that gives up on a locked machine
NotifierTryDrop ==
    /\ npc = "try"
    /\ IF MachineLockFree(nloc.msg)
       THEN /\ lock' = [lock EXCEPT ![nloc.msg] = Notifier]
            /\ npc' = "transition"
            /\ UNCHANGED <<queue, nloc>>
       ELSE /\ npc' = "recv"
            /\ nloc' = NoLoc
            /\ UNCHANGED <<lock, queue>>
    /\ UNCHANGED <<map, mach, running_rounds, rounds_lock, nextId, pc, loc, libvars, storevars, roundvars>>

\* sm_lock.try_lock(); if the machine is locked the notification is sent again
NotifierTry ==
    /\ npc = "try"
    /\ IF MachineLockFree(nloc.msg)
       THEN /\ lock' = [lock EXCEPT ![nloc.msg] = Notifier]
            /\ npc' = "transition"
            /\ UNCHANGED <<queue, nloc>>
       ELSE /\ queue' = Append(queue, <<nloc.msg, nloc.guild>>)
            /\ npc' = "recv"
            /\ nloc' = NoLoc
            /\ UNCHANGED lock
    /\ UNCHANGED <<map, mach, running_rounds, rounds_lock, nextId, pc, loc, libvars, storevars, roundvars>>

\* sm.transition(context, ()) with Event::Notify returns; the result is logged
NotifierTransition ==
    /\ npc = "transition"
    /\ \E out \in RegOutcomes :
         LET r == MessageTransition(mach[nloc.msg], "Notify", 0, out)
         IN /\ mach' = [mach EXCEPT ![nloc.msg] = r.msm]
            /\ nloc' = NoLoc
    /\ lock' = [lock EXCEPT ![nloc.msg] = "free"]
    /\ npc' = "recv"
    /\ UNCHANGED <<map, running_rounds, rounds_lock, queue, nextId, pc, loc, libvars, storevars, roundvars>>

NotifierStep == NotifierRecv \/ NotifierTry \/ NotifierTransition

WorkerStep(t) ==
    \/ \E g \in Guilds : ReserveLock(t, g)
    \/ ReserveCheck(t)
    \/ ReserveInsert(t)
    \/ CreateMessage(t)
    \/ CreateMessageFails(t)
    \/ MarkLock(t)
    \/ MarkSet(t)
    \/ Add(t)
    \/ \E m \in Ids : UpdateGet(t, m)
    \/ UpdateLock(t)
    \/ \E m \in Ids : TryLockUpdate(t, m)
    \/ AddSub(t)
    \/ \E m \in Ids : NotifyCall(t, m)
    \/ UpdateInner(t)
    \/ CleanupLock(t)
    \/ Cleanup(t)

\* the registry as constructed; no library instance is under test
Init ==
    /\ RegStart
    /\ sm = NewNext(1)
    /\ ret = None
    /\ ncalls = 0
    /\ latchedAt = 0
    /\ StoreStart
    /\ obs = << >>
    /\ count_queue = << >>
    /\ call = NoCall

Next ==
    \/ \E t \in Workers : WorkerStep(t)
    \/ NotifierStep

Spec == Init /\ [][Next]_vars

\* the notifier is a spawned task of its own: its loop keeps being scheduled
SpecLive == Spec /\ WF_vars(NotifierStep)

(***************************************************************************)
(* The caller of the library instance                                      *)
(***************************************************************************)
LibInit ==
    /\ sm \in Shapes
    /\ ret = None
    /\ ncalls = 0
    /\ latchedAt = 0
    /\ StoreStart
    /\ obs = [i \in NodeIds |-> NoObs]
    /\ RegStart
    /\ count_queue = << >>
    /\ call = NoCall

\* the caller invokes transition(context, arguments) on the instance
Call ==
    /\ ncalls < MaxCalls
    /\ \E ctx \in Ctxs, arg \in Vals, out \in Outcomes :
         LET r == Transition(sm, ctx, arg, out)
         IN /\ sm' = r.sm
            /\ ret' = r.res
            /\ obs' = ApplyEvents(obs, r.inv)
            /\ ncalls' = ncalls + 1
            /\ latchedAt' = IF latchedAt = 0 /\ IsTerminal(r.res)
                             THEN ncalls + 1 ELSE latchedAt
    /\ UNCHANGED <<regvars, roundvars, storevars>>

LibNext == Call

SpecLib == LibInit /\ [][LibNext]_vars

(***************************************************************************)
(* The nodes of an instance                                                *)
(***************************************************************************)
RECURSIVE NodesOf(_)
NodesOf(m) ==
    IF m.kind = "Chained"
    THEN {m.id} \cup NodesOf(m.first) \cup NodesOf(m.second)
    ELSE {m.id}

RECURSIVE LeavesOf(_)
LeavesOf(m) ==
    IF m.kind = "Chained"
    THEN LeavesOf(m.first) \cup LeavesOf(m.second)
    ELSE {m.id}

\* every Chained node: its id, the ids of its two parts, the nodes of its
\* second part, all nodes below it
RECURSIVE ChainsOf(_)
ChainsOf(m) ==
    IF m.kind = "Chained"
    THEN {[id |-> m.id, a |-> m.first.id, b |-> m.second.id,
           bnodes |-> NodesOf(m.second),
           below |-> NodesOf(m.first) \cup NodesOf(m.second)]}
         \cup ChainsOf(m.first) \cup ChainsOf(m.second)
    ELSE {}

\* node x's transition method is called in this step
Called(x) == obs'[x].calls = obs[x].calls + 1
\* nothing of node x runs in this step
Untouched(x) ==
    /\ obs'[x].calls = obs[x].calls
    /\ obs'[x].n = obs[x].n
    /\ obs'[x].inits = obs[x].inits

(***************************************************************************)
(* C1. Latch of Next / WithState / WithLazyState: once a leaf's transition *)
(* has returned Done(x) or Error(e), every later call of it returns that   *)
(* same result and its wrapped transition function does not run again.     *)
(***************************************************************************)
C1_LeafLatch ==
    [][\A l \in LeavesOf(sm) :
          IsTerminal(obs[l].ret) =>
              /\ obs'[l].ret = obs[l].ret
              /\ obs'[l].n = obs[l].n]_vars

\* a leaf instance that latched and was called again afterwards
C1_Witness ==
    /\ sm.kind \in {"Next", "WithState", "WithLazyState"}
    /\ latchedAt > 0
    /\ obs[sm.id].calls > latchedAt

(***************************************************************************)
(* C2. Latch of Chained, nested chains included: once a chain has returned *)
(* Done(out) or Error(e), every later call of it returns that same result  *)
(* and nothing below it (neither part, no wrapped function) runs again.    *)
(***************************************************************************)
C2_ChainedLatch ==
    [][\A c \in ChainsOf(sm) :
          IsTerminal(obs[c.id].ret) =>
              /\ obs'[c.id].ret = obs[c.id].ret
              /\ \A x \in c.below : Untouched(x)]_vars

\* the nested chain completed with Done and was called again afterwards
C2_Witness ==
    /\ sm.id = 5
    /\ ret.t = "Done"
    /\ latchedAt > 0
    /\ obs[5].calls > latchedAt

(***************************************************************************)
(* C3. Chained ordering: the second part of a chain is called only after   *)
(* the first part has returned Done; if the first part returned Error the  *)
(* second part is never called and the chain reports exactly that error.   *)
(***************************************************************************)
C3_ChainedOrdering ==
    \A c \in ChainsOf(sm) :
        /\ obs[c.b].calls > 0 => obs[c.a].ret.t = "Done"
        /\ obs[c.a].ret.t = "Error" =>
               /\ \A x \in c.bnodes : obs[x].calls = 0 /\ obs[x].n = 0 /\ obs[x].inits = 0
               /\ obs[c.id].ret = obs[c.a].ret

\* the first part failed and the chain was called again afterwards
C3_Witness ==
    /\ sm.id = 4
    /\ obs[1].ret.t = "Error"
    /\ obs[4].calls > obs[1].calls

(***************************************************************************)
(* C4. Chained hand-over: the call on which the first part returns         *)
(* Done(mid) makes the chain return NoTransition and does not reach the    *)
(* second part; each later call, until the chain completes, goes to the    *)
(* second part with that mid and the caller's context, and the chain       *)
(* returns what the second part returns; the chain reports Done only on a  *)
(* call on which the second part returned it.                              *)
(***************************************************************************)
C4_HandOver ==
    [][\A c \in ChainsOf(sm) :
          /\ (Called(c.a) /\ obs'[c.a].ret.t \in {"Done", "NoTransition"}) =>
                 /\ obs'[c.id].ret = NoTransition
                 /\ Untouched(c.b)
          /\ (Called(c.id) /\ obs[c.a].ret.t = "Done" /\ ~IsTerminal(obs[c.id].ret)) =>
                 /\ Untouched(c.a)
                 /\ Called(c.b)
                 /\ obs'[c.b].arg = obs[c.a].ret.v
                 /\ obs'[c.b].ctx = obs'[c.id].ctx
                 /\ obs'[c.id].ret = obs'[c.b].ret
          /\ (Called(c.id) /\ ~IsTerminal(obs[c.id].ret) /\ obs'[c.id].ret.t = "Done") =>
                 /\ Called(c.b)
                 /\ obs'[c.b].ret = obs'[c.id].ret]_vars

\* the first part completed on call 2, the second on its first call: the chain
\* returned Done on call 3
C4_Witness ==
    /\ sm.id = 4
    /\ ret.t = "Done"
    /\ obs[4].calls = 3
    /\ obs[1].calls = 2
    /\ obs[2].calls = 1
    /\ obs[2].arg = obs[1].ret.v

(***************************************************************************)
(* Observations on the registry                                            *)
(***************************************************************************)
\* worker t ends, in this step, a delivery whose transition returned Done or
\* Error (update or try_lock_update, through update_inner)
WorkerCompletes(t) == pc[t] = "cleanup" /\ pc'[t] = "idle"
\* the notifier ends, in this step, a delivery whose transition returned Done
\* or Error
NotifierCompletes ==
    /\ npc = "transition"
    /\ npc' = "recv"
    /\ IsTerminal(mach'[nloc.msg].sm.done)

\* the tasks that are executing machine m's transition
Executing(m) ==
    {t \in Workers : pc[t] = "transition" /\ loc[t].msg = m}
    \cup (IF npc = "transition" /\ nloc.msg = m THEN {Notifier} ELSE {})

\* a notification for machine m is on the queue or in the notifier's hands
InQueue(m) == \E i \in 1..Len(queue) : queue[i][1] = m
NotifPending(m) == InQueue(m) \/ (npc = "try" /\ nloc.msg = m)
\* the notifier is delivering Event::Notify to machine m
Delivering(m) == npc = "transition" /\ nloc.msg = m

(***************************************************************************)
(* C5. Reservation exclusivity: reserve_running_game returns Err exactly   *)
(* when the group has a reservation (pending or marked), and once the      *)
(* machine whose message id the reservation names has completed with Done  *)
(* or Error the group has no reservation, so the next reserve succeeds.    *)
(***************************************************************************)
C5_ReservationExclusive ==
    [][/\ \A t \in Workers :
             (pc[t] = "r_check" /\ pc'[t] # "r_check") =>
                 ((loc[t].guild \in DOMAIN running_rounds) <=> (pc'[t] = "idle"))
       /\ \A t \in Workers :
             (WorkerCompletes(t)
                 /\ Reserves(running_rounds, mach[loc[t].msg].guild_id, loc[t].msg)) =>
                 mach[loc[t].msg].guild_id \notin DOMAIN running_rounds'
       /\ (NotifierCompletes
              /\ Reserves(running_rounds, mach[nloc.msg].guild_id, nloc.msg)) =>
              mach[nloc.msg].guild_id \notin DOMAIN running_rounds']_vars

(***************************************************************************)
(* C6. Whenever a registered machine's transition returns Done or Error,   *)
(* for an event delivered by update, by try_lock_update or as a Notify by  *)
(* the background notifier, the machine's entry is gone from the map and   *)
(* the group's reservation no longer names its message id when that        *)
(* delivery ends.                                                          *)
(***************************************************************************)
C6_CompletionRemoves ==
    [][/\ \A t \in Workers :
             WorkerCompletes(t) =>
                 /\ loc[t].msg \notin map'
                 /\ ~Reserves(running_rounds', mach[loc[t].msg].guild_id, loc[t].msg)
       /\ NotifierCompletes =>
             /\ nloc.msg \notin map'
             /\ ~Reserves(running_rounds', mach[nloc.msg].guild_id, nloc.msg)]_vars

(***************************************************************************)
(* C7. Race-safe reservation: whatever the interleaving of the round-start *)
(* triggers of one group, at most one of them holds an Ok from             *)
(* reserve_running_game without having marked a message id yet, and while  *)
(* it does the group's reservation is the pending one it inserted.         *)
(***************************************************************************)
Reserved(g) == {t \in Workers : pc[t] \in {"create", "m_lock", "m_set"} /\ loc[t].guild = g}

C7_RaceSafeReservation ==
    \A g \in Guilds :
        /\ Cardinality(Reserved(g)) <= 1
        /\ Reserved(g) # {} => (g \in DOMAIN running_rounds /\ running_rounds[g] = None)

\* one trigger holds the reservation and has no message id yet while a second
\* trigger for the same group is inside reserve_running_game
C7_Witness ==
    /\ pc["w1"] = "create"
    /\ pc["w2"] = "r_check"
    /\ loc["w1"].guild = loc["w2"].guild

(***************************************************************************)
(* C8. No two events of one machine are processed concurrently: at any     *)
(* time at most one task (an update caller, a try_lock_update caller or    *)
(* the notifier) is executing a given machine's transition.                *)
(***************************************************************************)
C8_OneAtATime ==
    \A m \in Ids : Cardinality(Executing(m)) <= 1

\* a worker executes the transition while another worker waits for the lock
\* and the notifier is about to try it
C8_Witness ==
    \E m \in Ids :
        /\ pc["w1"] = "transition" /\ loc["w1"].msg = m
        /\ pc["w2"] = "u_lock" /\ loc["w2"].msg = m
        /\ npc = "try" /\ nloc.msg = m

MaxCount == 2
\* largest number of participants
MaxPlayers == 3

\* role configs, in the order of their names (the order of the BTreeMap), and
\* the ones that mask another role
RoleOrder == <<"A", "B", "M">>
RoleNames == {RoleOrder[i] : i \in 1..Len(RoleOrder)}
masks_role(role) == role = "M"

Players == <<"u1", "u2", "u3", "u4">>
\* participant lists: the first k players, in order (and one other order)
ParticipantLists ==
    {SubSeq(Players, 1, k) : k \in 0..MaxPlayers} \cup {<<Players[2], Players[1]>>}
RoleMaps == [RoleNames -> 0..MaxCount]
\* the random source: the numbers it hands out, in order
Rngs == {[i \in 1..(3 * MaxCount + MaxPlayers) |-> 0],
         [i \in 1..(3 * MaxCount + MaxPlayers) |-> i]}

\* rng.gen_range(0..high): panics on an empty range
gen_range(rng, high) == Head(rng) % high

\* Vec::remove(index), index counted from 0
VecRemove(v, index) == SubSeq(v, 1, index) \o SubSeq(v, index + 2, Len(v))

\* `count` copies of `role`
RECURSIVE Repeat(_, _)
Repeat(role, count) == IF count = 0 THEN <<>> ELSE <<role>> \o Repeat(role, count - 1)

\* the occurrences of the roles that mask (masking = TRUE) or do not mask,
\* flattened by count in the order of the map
RECURSIVE Flatten(_, _, _)
Flatten(roles, masking, i) ==
    IF i > Len(RoleOrder) THEN <<>>
    ELSE (IF masks_role(RoleOrder[i]) = masking
          THEN Repeat(RoleOrder[i], roles[RoleOrder[i]]) ELSE <<>>)
         \o Flatten(roles, masking, i + 1)

\* the Rust range a..b as the sequence of its values: empty unless a < b
Range(a, b) == IF a < b THEN [i \in 1..(b - a) |-> a + i - 1] ELSE <<>>

\* WereWolfRoleConfig::to_instance(&mut pool, rng): a role that does not mask
\* becomes a leaf instance; a masking role draws one occurrence from the pool,
\* removes it and carries it as its nested instance; None without one to draw
to_instance(role, pool, rng) ==
    IF ~masks_role(role)
    THEN Some([instance |-> [name |-> role, masked |-> None], pool |-> pool, rng |-> rng])
    ELSE IF pool = <<>>
         THEN None
         ELSE LET index == gen_range(rng, Len(pool))
              IN Some([instance |-> [name |-> role,
                                     masked |-> Some([name |-> pool[index + 1],
                                                      masked |-> None])],
                       pool |-> VecRemove(pool, index),
                       rng |-> Tail(rng)])

\* the body of the two loops: draw a role, pop a participant, build the
\* instance, insert it; a failing unwrap or an empty range panics
LoopBody(st, from_nested, remaining) ==
    LET source == IF from_nested THEN st.nested_roles ELSE st.non_nested_roles
    IN IF st.panic \/ remaining = 0 \/ gen_range(st.rng, remaining) >= Len(source)
          \/ st.participants = <<>>
       THEN [st EXCEPT !.panic = TRUE]
       ELSE LET index == gen_range(st.rng, remaining)
                role == source[index + 1]
                taken == VecRemove(source, index)
                user == st.participants[Len(st.participants)]
                pool == IF from_nested THEN st.non_nested_roles ELSE taken
                made == to_instance(role, pool, Tail(st.rng))
            IN IF made = None
               THEN [st EXCEPT !.panic = TRUE]
               ELSE [nested_roles |-> IF from_nested THEN taken ELSE st.nested_roles,
                     non_nested_roles |-> made.x.pool,
                     participants |-> SubSeq(st.participants, 1, Len(st.participants) - 1),
                     result |-> [u \in (DOMAIN st.result) \cup {user} |->
                                    IF u = user THEN made.x.instance ELSE st.result[u]],
                     rng |-> made.x.rng,
                     panic |-> FALSE]

\* for remaining in range { body }
RECURSIVE Loop(_, _, _)
Loop(st, from_nested, range) ==
    IF range = <<>> THEN st
    ELSE Loop(LoopBody(st, from_nested, Head(range)), from_nested, Tail(range))

MismatchedCount(available_roles, player_count) ==
    [err |-> "MismatchedCount", available_roles |-> available_roles,
     player_count |-> player_count]
TooManyMaskedRoles(masking_roles, normal_roles) ==
    [err |-> "TooManyMaskedRoles", masking_roles |-> masking_roles,
     normal_roles |-> normal_roles]

\* the counts are reported the other way round
CheckCountsSwapped(nested, non_nested, participants) ==
    IF non_nested # participants
    THEN Some(MismatchedCount(participants, non_nested))
    ELSE IF nested > non_nested
         THEN Some(TooManyMaskedRoles(non_nested, nested))
         ELSE None

\* the two checks on the lengths of the flattened lists
CheckCounts(nested, non_nested, participants) ==
    IF non_nested # participants
    THEN Some(MismatchedCount(non_nested, participants))
    ELSE IF nested > non_nested
         THEN Some(TooManyMaskedRoles(nested, non_nested))
         ELSE None

\* distribute(participants, roles, rng)
distribute(participants, roles, rng) ==
    LET nested_roles == Flatten(roles, TRUE, 1)
        non_nested_roles == Flatten(roles, FALSE, 1)
        invalid == CheckCounts(Len(nested_roles), Len(non_nested_roles), Len(participants))
    IN IF invalid # None
       THEN [t |-> "Err", e |-> invalid.x]
       ELSE LET start == [nested_roles |-> nested_roles,
                          non_nested_roles |-> non_nested_roles,
                          participants |-> participants,
                          result |-> << >>,
                          rng |-> rng,
                          panic |-> FALSE]
                first == Loop(start, TRUE, Range(Len(nested_roles), 0))
                second == Loop(first, FALSE, Range(Len(first.non_nested_roles), 0))
            IN IF second.panic THEN [t |-> "Panic"] ELSE [t |-> "Ok", v |-> second.result]

Pending == [t |-> "Pending"]

\* a caller is about to distribute some roles among some participants
DistInit ==
    /\ RegStart
    /\ sm = NewNext(1)
    /\ ret = None
    /\ ncalls = 0
    /\ latchedAt = 0
    /\ StoreStart
    /\ obs = << >>
    /\ count_queue = << >>
    /\ call \in {[op |-> "distribute", participants |-> p, roles |-> r, rng |-> g,
                  result |-> Pending] :
                    p \in ParticipantLists, r \in RoleMaps, g \in Rngs}

\* distribute_roles(participants, roles)
distribute_roles ==
    /\ call.op = "distribute"
    /\ call.result = Pending
    /\ call' = [call EXCEPT !.result = distribute(call.participants, call.roles, call.rng)]
    /\ UNCHANGED <<libvars, storevars, regvars, count_queue>>

DistNext == distribute_roles

SpecDist == DistInit /\ [][DistNext]_vars

\* the counts of an input: masking occurrences, other occurrences, participants
CountM(c) == Len(Flatten(c.roles, TRUE, 1))
CountN(c) == Len(Flatten(c.roles, FALSE, 1))
CountP(c) == Len(c.participants)
Distributed == call.op = "distribute" /\ call.result # Pending
ParticipantSet(c) == {c.participants[i] : i \in 1..Len(c.participants)}

\* how often role r occurs in the produced instances, on top or nested
Occurrences(result, r) ==
    Cardinality({u \in DOMAIN result : result[u].name = r})
    + Cardinality({u \in DOMAIN result :
                      result[u].masked # None /\ result[u].masked.x.name = r})

(***************************************************************************)
(* C15. Distribution validity: when the number N of occurrences of roles   *)
(* that do not mask equals the number P of participants and the number M   *)
(* of masking occurrences is at most N, distribute returns Ok with a map   *)
(* whose key set is the participant set.                                   *)
(***************************************************************************)
C15_DistributionValid ==
    (Distributed /\ CountN(call) = CountP(call) /\ CountM(call) <= CountN(call)) =>
        /\ call.result.t = "Ok"
        /\ DOMAIN call.result.v = ParticipantSet(call)

(***************************************************************************)
(* C16. Distribution errors: distribute returns MismatchedCount(N, P)      *)
(* whenever N # P, TooManyMaskedRoles(M, N) when N = P and M > N, and it   *)
(* never panics.                                                           *)
(***************************************************************************)
C16_DistributionErrors ==
    Distributed =>
        /\ call.result.t # "Panic"
        /\ CountN(call) # CountP(call) =>
               call.result = [t |-> "Err", e |-> MismatchedCount(CountN(call), CountP(call))]
        /\ (CountN(call) = CountP(call) /\ CountM(call) > CountN(call)) =>
               call.result = [t |-> "Err",
                              e |-> TooManyMaskedRoles(CountM(call), CountN(call))]

\* roles {A: 2, B: 2} with three participants: the error names 4 and 3
C16_Witness ==
    /\ Distributed
    /\ call.roles = [r \in RoleNames |-> IF masks_role(r) THEN 0 ELSE 2]
    /\ Len(call.participants) = 3
    /\ call.result = [t |-> "Err", e |-> MismatchedCount(4, 3)]

(***************************************************************************)
(* C17. Masking resolution: for a valid input, every produced instance of  *)
(* a masking role carries one nested instance of a role that does not      *)
(* mask, the other instances carry none, and every configured occurrence   *)
(* of a role is in exactly one produced instance, on top or nested.        *)
(***************************************************************************)
C17_MaskingResolution ==
    (Distributed /\ CountN(call) = CountP(call) /\ CountM(call) <= CountN(call)) =>
        /\ call.result.t = "Ok"
        /\ \A u \in DOMAIN call.result.v :
              IF masks_role(call.result.v[u].name)
              THEN /\ call.result.v[u].masked # None
                   /\ ~masks_role(call.result.v[u].masked.x.name)
              ELSE call.result.v[u].masked = None
        /\ \A r \in RoleNames : Occurrences(call.result.v, r) = call.roles[r]

(***************************************************************************)
(* The reservation calls of the registry (src/sms.rs), made one after the  *)
(* other, in any order and for any group, by an arbitrary caller.  Each    *)
(* call holds the running_rounds mutex from its first line to its last.    *)
(***************************************************************************)
ApiGuilds == {"g1", "g2"}

\* reserve_running_game: the body under the lock
reserve_running_game(rr, guild) ==
    IF guild \in DOMAIN rr
    THEN [rr |-> rr, ok |-> FALSE]
    ELSE [rr |-> Insert(rr, guild, None), ok |-> TRUE]

\* an unmark_running_game that also clears an entry without a message id
unmark_running_game_pending(rr, guild, message_id) ==
    IF guild \notin DOMAIN rr
    THEN rr
    ELSE IF rr[guild] \in {Some(message_id), None} THEN Remove(rr, guild) ELSE rr

\* unmark_running_game: the body under the lock
unmark_running_game(rr, guild, message_id) ==
    IF guild \notin DOMAIN rr
    THEN rr
    ELSE IF rr[guild] = Some(message_id) THEN Remove(rr, guild) ELSE rr

ApiReserve(g) ==
    /\ RoundsLockFree
    /\ LET r == reserve_running_game(running_rounds, g)
       IN /\ running_rounds' = r.rr
          /\ call' = [op |-> "reserve", guild |-> g, msg |-> 0, ok |-> r.ok]
    /\ UNCHANGED <<map, mach, lock, rounds_lock, queue, nextId, pc, loc, npc, nloc,
                   libvars, storevars, count_queue>>

ApiMark(g, m) ==
    /\ RoundsLockFree
    /\ LET r == mark_running_game(running_rounds, g, m)
       IN /\ running_rounds' = r.rr
          /\ call' = [op |-> "mark", guild |-> g, msg |-> m, ok |-> r.ok]
    /\ UNCHANGED <<map, mach, lock, rounds_lock, queue, nextId, pc, loc, npc, nloc,
                   libvars, storevars, count_queue>>

ApiUnmark(g, m) ==
    /\ RoundsLockFree
    /\ running_rounds' = unmark_running_game(running_rounds, g, m)
    /\ call' = [op |-> "unmark", guild |-> g, msg |-> m, ok |-> TRUE]
    /\ UNCHANGED <<map, mach, lock, rounds_lock, queue, nextId, pc, loc, npc, nloc,
                   libvars, storevars, count_queue>>

ApiNext ==
    \/ \E g \in ApiGuilds : ApiReserve(g)
    \/ \E g \in ApiGuilds, m \in Ids : ApiMark(g, m)
    \/ \E g \in ApiGuilds, m \in Ids : ApiUnmark(g, m)

SpecApi == Init /\ [][ApiNext]_vars

IsoGuilds == {"g1", "g2"}
IsoWorker == "w1"

IsoNext ==
    \/ WorkerStep(IsoWorker)
    \/ \E g \in IsoGuilds \ Guilds : ReserveLock(IsoWorker, g)
    \/ NotifierStep

SpecIso == Init /\ [][IsoNext]_vars

\* in this step worker t's update_inner takes the entry of a machine whose
\* transition returned Error out of the map
ErrorEvicts(t) ==
    /\ pc[t] = "transition"
    /\ pc'[t] = "rlock"
    /\ mach'[loc[t].msg].sm.done.t = "Error"
\* in this step worker t's update_inner ends the clean-up after an Error
ErrorCleansUp(t) ==
    /\ WorkerCompletes(t)
    /\ mach[loc[t].msg].sm.done.t = "Error"
\* in this step the notifier ends a delivery whose transition returned Error
NotifierGetsError ==
    /\ NotifierCompletes
    /\ mach'[nloc.msg].sm.done.t = "Error"

\* the reservations of rr other than the one of guild g naming message m are
\* the same in rr2, and rr2 has no others
OthersKept(rr, rr2, g, m) ==
    /\ DOMAIN rr2 \subseteq DOMAIN rr
    /\ \A x \in DOMAIN rr :
          (x # g \/ ~Reserves(rr, g, m)) => (x \in DOMAIN rr2 /\ rr2[x] = rr[x])

(***************************************************************************)
(* C14. Error isolation: when a machine's transition returns Error, the    *)
(* only registry entry that is removed is that machine's, and the only     *)
(* reservation that is removed is the one of its group that names its      *)
(* message id; every other machine, entry and reservation is unchanged.    *)
(* On the update path the entry and that reservation are removed.          *)
(***************************************************************************)
C14_ErrorIsolation ==
    [][/\ \A t \in Workers :
             ErrorEvicts(t) =>
                 /\ map' = map \ {loc[t].msg}
                 /\ running_rounds' = running_rounds
                 /\ \A k \in Ids \ {loc[t].msg} : mach'[k] = mach[k]
       /\ \A t \in Workers :
             ErrorCleansUp(t) =>
                 /\ map' = map
                 /\ mach' = mach
                 /\ OthersKept(running_rounds, running_rounds',
                               mach[loc[t].msg].guild_id, loc[t].msg)
                 /\ ~Reserves(running_rounds', mach[loc[t].msg].guild_id, loc[t].msg)
       /\ NotifierGetsError =>
             /\ map' \subseteq map
             /\ map \ map' \subseteq {nloc.msg}
             /\ OthersKept(running_rounds, running_rounds',
                           mach[nloc.msg].guild_id, nloc.msg)
             /\ \A k \in Ids \ {nloc.msg} : mach'[k] = mach[k]]_vars

\* the round of one group has failed and is gone, with its reservation; the
\* round of the other group is registered and holds its reservation
C14_Witness ==
    \E m1, m2 \in Ids :
        /\ mach[m1].sm.done.t = "Error"
        /\ m1 \notin map
        /\ mach[m1].guild_id \notin DOMAIN running_rounds
        /\ m2 \in map
        /\ mach[m2].guild_id # mach[m1].guild_id
        /\ Reserves(running_rounds, mach[m2].guild_id, m2)

(***************************************************************************)
(* The round machine (src/commands/werewolf/sm.rs): the phases             *)
(* RegisterPlayers -> SelectRoles -> RoleCounts -> Running chained with    *)
(* the combinators above, and the headcount sub-machines of RoleCounts.    *)
(* The specification's names for the phases are RegisterUsers,             *)
(* RegisterRoles, RoleCounts and Ongoing.                                  *)
(***************************************************************************)
\* longest list of registered players
MaxList == 2
\* largest page number reached with NextPage
MaxPage == 1

\* the round's entry message and its guild
RoundMsg == 1
RoundGuild == "g1"
\* the users who send events; `mods` is the set handed to create
Users == {"mod", "u1"}
mods == {"mod"}

\* the roles the storage holds for the guild (storage.load_roles), and the
\* ones that are asked a headcount for
all_roles == RoleNames
multi_player(role) == role \in {"A", "M"}
\* ids of the round's message and of the headcount messages
RoundIds == 1..(1 + Cardinality({r \in all_roles : multi_player(r)}))

\* the reactions of src/reactions.rs and the emojis of the roles
Reactions == {"Entry", "Confirm", "Stop", "NextPage", "PreviousPage"}
emoji(role) == CASE role = "A" -> "a" [] role = "B" -> "b" [] role = "M" -> "m"
Emojis == Reactions \cup {emoji(r) : r \in all_roles}

\* the text of a reply, and str::parse::<usize>
Digits == <<"0", "1", "2", "3", "4", "5">>
Contents == {"0", "1", "two"}
parse_usize(content) ==
    IF \E i \in 1..Len(Digits) : Digits[i] = content
    THEN Some((CHOOSE i \in 1..Len(Digits) : Digits[i] = content) - 1)
    ELSE None

\* Event (src/messages/traits.rs)
AddReaction(user_id, e) == [type |-> "AddReaction", user_id |-> user_id, emoji |-> e]
RemoveReaction(user_id, e) == [type |-> "RemoveReaction", user_id |-> user_id, emoji |-> e]
Reply(author, content) == [type |-> "Reply", author |-> author, content |-> content]
Notify == [type |-> "Notify"]
\* the events the platform delivers for message m: reactions on the round's
\* entry message, replies to a headcount message, and one event of the other
\* kind for each
PlatformEvents(m) ==
    IF m = RoundMsg
    THEN {AddReaction(u, e) : u \in Users, e \in Emojis}
           \cup {RemoveReaction(u, e) : u \in Users,
                                        e \in (Emojis \ Reactions) \cup {"Entry"}}
           \cup {Reply("mod", "1")}
    ELSE {Reply(u, c) : u \in Users, c \in Contents}
           \cup {AddReaction("mod", "Confirm")}

\* what the collaborators do during one call: everything succeeds, or the
\* named one fails (storage.load_roles, editing or sending a message, looking
\* a guild role up, setting the channels of the round up)
Envs == {"ok", "storage_fails", "message_fails", "second_message_fails",
         "lookup_fails", "start_fails"}

\* TransitionError (src/messages/traits.rs)
Serenity == [error |-> "Serenity"]
Generic(e) == [error |-> "Generic", e |-> e]
\* the unit value () that the registry passes as the argument
Unit == "unit"

\* usize::MAX as a residue: 2^64 - 1 is -1 modulo 2^64
UsizeMax == -1

\* what running a phase's transition function did: it returned (res, st), or
\* it panicked; the sub-machines it registered, whether it notified the
\* round, and what it pushed to and popped from the count queue
Returns(res, st) ==
    [panic |-> FALSE, res |-> res, st |-> st,
     subs |-> <<>>, notify |-> FALSE, push |-> None, pop |-> FALSE,
     update_msg |-> FALSE]
Panics == [Returns(NoTransition, None) EXCEPT !.panic = TRUE]

\* the guards of the phases
IsModeratorAlways(user_id) == TRUE
IsModerator(user_id) == user_id \in mods
PlayersEmptyNever(players) == FALSE
PlayersEmpty(players) == players = <<>>
ConfiguredAlways(role_messages) == TRUE
Configured(role_messages) == role_messages = {}

\* a slip in find_role: an emoji that matches no role finds the first role
find_role_any(e) ==
    IF \E r \in all_roles : emoji(r) = e
    THEN Some(CHOOSE r \in all_roles : emoji(r) = e)
    ELSE Some(RoleOrder[1])

\* SelectRolesState::find_role
find_role(e) ==
    IF \E r \in all_roles : emoji(r) = e
    THEN Some(CHOOSE r \in all_roles : emoji(r) = e)
    ELSE None

\* Vec::remove of the first occurrence of user_id, if there is one
RemoveFirst(players, user_id) ==
    IF \E i \in 1..Len(players) : players[i] = user_id
    THEN VecRemove(players, (CHOOSE i \in 1..Len(players) :
                               /\ players[i] = user_id
                               /\ \A j \in 1..(i - 1) : players[j] # user_id) - 1)
    ELSE players

\* the initial state of create: no players
RegisterPlayersInitial == [players |-> <<>>]

\* SelectRolesState::from_first
from_first(first, env) ==
    IF env = "message_fails"
    THEN None
    ELSE Some([players |-> first.players, role_page |-> 0, selected_roles |-> {}])

\* the transition function of the RegisterPlayers phase
RegisterPlayersFn(ev, state, env) ==
    CASE ev.type = "AddReaction" ->
           IF ev.emoji = "Entry"
           THEN Returns(NoTransition, [state EXCEPT !.players = Append(@, ev.user_id)])
           ELSE IF ev.emoji = "Confirm"
           THEN IF ~IsModerator(ev.user_id) THEN Returns(NoTransition, state)
                ELSE IF PlayersEmpty(state.players) THEN Returns(NoTransition, state)
                ELSE IF env = "storage_fails" THEN Panics
                ELSE LET next_state == from_first(state, env)
                     IN IF next_state = None
                        THEN Returns(Error(Serenity), state)
                        ELSE Returns(Done(next_state.x), state)
           ELSE Returns(NoTransition, state)
      [] ev.type = "RemoveReaction" ->
           IF ev.emoji = "Entry"
           THEN Returns(NoTransition,
                        [state EXCEPT !.players = RemoveFirst(@, ev.user_id)])
           ELSE Returns(NoTransition, state)
      [] OTHER -> Returns(NoTransition, state)

\* the selected roles in the order of the BTreeSet
SelectedInOrder(selected_roles) ==
    SelectSeq(RoleOrder, LAMBDA r : r \in selected_roles)

\* a slip in RoleCountsState::new: no role is asked about, each gets count 1
RoleCountsNewAsksNone(previous, env) ==
    Some([state |-> [players |-> previous.players,
                     roles |-> [r \in previous.selected_roles |-> 1],
                     role_messages |-> {}],
          subs |-> << >>,
          notify |-> TRUE])

\* what RoleCountsState::new leaves behind when posting the second headcount
\* message fails: the first sub-machine has been added to the registry already
Failed(subs) == [t |-> "Failed", subs |-> subs]

\* RoleCountsState::new: a headcount sub-machine per multi-player role, count 1
\* for the others, and a notification when there is nothing to wait for
RoleCountsNew(previous, env) ==
    LET asked == SelectSeq(SelectedInOrder(previous.selected_roles), multi_player)
        single == {r \in previous.selected_roles : ~multi_player(r)}
    IN IF asked # <<>> /\ env = "message_fails"
       THEN None
       ELSE IF Len(asked) > 1 /\ env = "second_message_fails"
       THEN Failed(SubSeq(asked, 1, 1))
       ELSE Some([state |-> [players |-> previous.players,
                             roles |-> [r \in single |-> 1],
                             role_messages |-> {asked[i] : i \in 1..Len(asked)}],
                  subs |-> asked,
                  notify |-> asked = <<>>])

\* role_page -= 1 and role_page += 1 on a usize. A page number is kept as its
\* residue nearest to 0 (UsizeMax is usize::MAX, UsizeMax - 1 the one below
\* it); past either end of the usize range the build with overflow checks
\* panics and the one without them wraps
PageDown(role_page, wraps) ==
    IF role_page = 0
    THEN (IF wraps THEN Some(UsizeMax) ELSE None)
    ELSE Some(role_page - 1)
PageUp(role_page, wraps) ==
    IF role_page = UsizeMax
    THEN (IF wraps THEN Some(0) ELSE None)
    ELSE Some(role_page + 1)

\* the transition function of the SelectRoles phase; `wraps` tells whether the
\* build wraps on overflow
SelectRolesFn(ev, state, env, wraps) ==
    CASE ev.type = "AddReaction" ->
           IF ~IsModerator(ev.user_id) THEN Returns(NoTransition, state)
           ELSE IF ev.emoji \in {"PreviousPage", "NextPage"}
           THEN LET page == IF ev.emoji = "PreviousPage"
                            THEN PageDown(state.role_page, wraps)
                            ELSE PageUp(state.role_page, wraps)
                IN IF page = None THEN Panics
                   ELSE [Returns(NoTransition, [state EXCEPT !.role_page = page.x])
                            EXCEPT !.update_msg = TRUE]
           ELSE IF ev.emoji = "Confirm"
           THEN LET next_state == RoleCountsNew(state, env)
                IN IF next_state = None
                   THEN Returns(Error(Serenity), state)
                   ELSE IF next_state.t = "Failed"
                   THEN [Returns(Error(Serenity), state) EXCEPT
                            !.subs = next_state.subs]
                   ELSE [Returns(Done(next_state.x.state), state) EXCEPT
                            !.subs = next_state.x.subs,
                            !.notify = next_state.x.notify]
           ELSE LET role == find_role(ev.emoji)
                IN IF role = None THEN Returns(NoTransition, state)
                   ELSE Returns(NoTransition,
                                [state EXCEPT !.selected_roles = @ \cup {role.x}])
      [] ev.type = "RemoveReaction" ->
           IF ~IsModerator(ev.user_id) THEN Returns(NoTransition, state)
           ELSE LET role == find_role(ev.emoji)
                IN IF role = None THEN Returns(NoTransition, state)
                   ELSE Returns(NoTransition,
                                [state EXCEPT !.selected_roles = @ \ {role.x}])
      [] OTHER -> Returns(NoTransition, state)

\* the BTreeMap role -> count as the counts of all roles (none of a role that
\* has no entry)
RoleCountsMap(roles) == [r \in RoleNames |-> IF r \in DOMAIN roles THEN roles[r] ELSE 0]

\* StartError (src/rounds/state/start.rs)
DistributingRoles(e) == [error |-> "DistributingRoles", e |-> e]
SettingUpChannels == [error |-> "SettingUpChannels"]

\* rounds::start::start, given what distribute_roles returned: the roles are
\* distributed first, then the channels of the round are set up
start(participants, env) ==
    CASE participants.t = "Panic" -> [t |-> "Panic"]
      [] participants.t = "Err" -> [t |-> "Err", e |-> DistributingRoles(participants.e)]
      [] OTHER -> IF env = "start_fails"
                  THEN [t |-> "Err", e |-> SettingUpChannels]
                  ELSE [t |-> "Ok", v |-> [players |-> participants.v]]

\* RunningState::new: the two role lookups are unwrapped, then the round is
\* started
RunningNew(previous, env, rng) ==
    IF env = "lookup_fails"
    THEN [t |-> "Panic"]
    ELSE start(distribute(previous.players, RoleCountsMap(previous.roles), rng), env)

\* what the RoleCounts phase returns for the outcome n_state of
\* RunningState::new
Started(n_state, state) ==
    CASE n_state.t = "Panic" -> Panics
      [] n_state.t = "Err" -> Returns(Error(Generic(n_state.e)), state)
      [] OTHER -> Returns(Done(n_state.v), state)

\* the end of the RoleCounts phase: the attempt to build the Running state
StartRunning(state, env, rng) == Started(RunningNew(state, env, rng), state)

\* the transition function of the RoleCounts phase; `cq` is the count queue.
\* With roles to wait for it takes one count from the queue; with none left
\* (before or after that) it tries to start the round
RoleCountsFn(ev, state, env, rng, cq) ==
    LET waiting == ~Configured(state.role_messages)
        pop == waiting /\ cq # <<>>
        counted == IF pop
                   THEN [state EXCEPT !.role_messages = @ \ {Head(cq)[1]},
                                      !.roles = Insert(@, Head(cq)[1], Head(cq)[2])]
                   ELSE state
    IN IF ev.type # "Notify" \/ (waiting /\ ~pop)
       THEN Returns(NoTransition, state)
       ELSE IF Configured(counted.role_messages)
            THEN [StartRunning(counted, env, rng) EXCEPT !.pop = pop]
            ELSE [Returns(NoTransition, counted) EXCEPT !.pop = pop]

\* a slip in the Running phase: a Notify ends the round
RunningFnEndsOnNotify(ev, state, env) ==
    IF ev.type = "Notify" THEN Returns(Done(Unit), state)
    ELSE Returns(NoTransition, state)

\* the transition function of the Running phase
RunningFn(ev, state, env) ==
    IF ev.type # "AddReaction"
    THEN Returns(NoTransition, state)
    ELSE IF ~IsModerator(ev.user_id)
    THEN Returns(NoTransition, state)
    ELSE IF ev.emoji = "Stop"
    THEN (IF env = "lookup_fails" THEN Panics ELSE Returns(Done(Unit), state))
    ELSE Returns(NoTransition, state)

\* the transition function of a headcount sub-machine (create_role_sm)
RoleCountFn(ev, state, env) ==
    IF ev.type # "Reply"
    THEN Returns(NoTransition, state)
    ELSE IF ~IsModerator(ev.author)
    THEN Returns(NoTransition, state)
    ELSE LET parsed == parse_usize(ev.content)
         IN IF parsed = None
            THEN Returns(NoTransition, state)
            ELSE [Returns(Done(Unit), state) EXCEPT
                     !.push = Some(<<state.role, parsed.x>>),
                     !.notify = TRUE]

\* the leaves of the machines
RegisterPlayersId == 1
SelectRolesId == 2
RoleCountsId == 3
RunningId == 4
RoleCountId == 8

\* create: the round's machine around its entry message
\* a slip in create: the Running phase chained in before RoleCounts
createOutOfOrder(guild_id, message_id) ==
    NewMessageStateMachine(guild_id, message_id,
        NewChained(7,
            NewChained(6,
                NewChained(5, NewWithState(RegisterPlayersId, RegisterPlayersInitial),
                              NewWithLazyState(SelectRolesId)),
                NewWithLazyState(RunningId)),
            NewWithLazyState(RoleCountsId)))

create(guild_id, message_id) ==
    NewMessageStateMachine(guild_id, message_id,
        NewChained(7,
            NewChained(6,
                NewChained(5, NewWithState(RegisterPlayersId, RegisterPlayersInitial),
                              NewWithLazyState(SelectRolesId)),
                NewWithLazyState(RoleCountsId)),
            NewWithLazyState(RunningId)))

\* create_role_sm: the sub-machine that asks the headcount of `role`
create_role_sm(guild_id, message_id, role) ==
    NewMessageStateMachine(guild_id, message_id,
        NewWithState(RoleCountId, [role |-> role]))

\* the transition function of leaf `id`
PhaseFn(id, ev, state, env, wraps, rng, cq) ==
    CASE id = RegisterPlayersId -> RegisterPlayersFn(ev, state, env)
      [] id = SelectRolesId -> SelectRolesFn(ev, state, env, wraps)
      [] id = RoleCountsId -> RoleCountsFn(ev, state, env, rng, cq)
      [] id = RunningId -> RunningFn(ev, state, env)
      [] id = RoleCountId -> RoleCountFn(ev, state, env)

\* the leaf that a call on machine m reaches, and the argument it is handed;
\* NoLeaf when some machine on the way has latched
NoLeaf == [leaf |-> None]
RECURSIVE Active(_, _)
Active(m, arg) ==
    IF m.kind = "Chained"
    THEN CASE m.result.tag = "Empty" -> Active(m.first, arg)
           [] m.result.tag = "First" ->
                IF m.result.res.t = "Done" THEN Active(m.second, m.result.res.v) ELSE NoLeaf
           [] m.result.tag = "Second" -> NoLeaf
    ELSE IF m.done # None THEN NoLeaf ELSE [leaf |-> Some(m), arg |-> arg]

\* the state the leaf's function is handed: the stored one, the initial one of
\* a WithLazyState, or None when an earlier panic took it away
LeafState(a) ==
    IF a.leaf.x.state # None THEN a.leaf.x.state
    ELSE IF a.leaf.x.kind = "WithLazyState" THEN Some(InitFn(a.arg))
    ELSE None

\* machine m after a panic inside the active leaf's function: the leaf's
\* state has been taken and is not put back
RECURSIVE Unwind(_)
Unwind(m) ==
    IF m.kind = "Chained"
    THEN CASE m.result.tag = "Empty" -> [m EXCEPT !.first = Unwind(m.first)]
           [] m.result.tag = "First" -> [m EXCEPT !.second = Unwind(m.second)]
           [] OTHER -> m
    ELSE [m EXCEPT !.state = None]

\* a call that ended in a panic
Panic == [t |-> "Panic"]

\* sm.transition(context, ()) on the MessageStateMachine msm with event ev:
\* the machine afterwards, the result (or Panic), and what the function did
Deliver(msm, ev, env, wraps, rng, cq) ==
    LET a == Active(msm.sm, Unit)
    IN IF a = NoLeaf
       THEN LET r == MessageTransition(msm, ev, Unit, [res |-> NoTransition, st |-> None])
            IN [msm |-> r.msm, res |-> r.res, did |-> Returns(r.res, None)]
       ELSE IF LeafState(a) = None
       THEN [msm |-> msm, res |-> Panic, did |-> Panics]
       ELSE LET did == PhaseFn(a.leaf.x.id, ev, LeafState(a).x, env, wraps, rng, cq)
            IN IF did.panic
               THEN [msm |-> [msm EXCEPT !.sm = Unwind(@)], res |-> Panic, did |-> did]
               ELSE LET r == MessageTransition(msm, ev, Unit, [res |-> did.res, st |-> did.st])
                    IN [msm |-> r.msm, res |-> r.res, did |-> did]

\* what a caller can see of a machine: the phase it is in (the leaf that its
\* next call reaches, NoPhase when it has latched) and that phase's data
NoPhase == 0
View(msm) ==
    LET a == Active(msm.sm, Unit)
    IN IF a = NoLeaf
       THEN [phase |-> NoPhase, state |-> None]
       ELSE [phase |-> a.leaf.x.id, state |-> LeafState(a)]
Phase(msm) == View(msm).phase

\* the round's machine is in phase `id` and holds that phase's data
InPhase(v, id) == v.phase = id /\ v.state # None

\* the event keeps the lists and the page number within the bounds
WithinBounds(v, ev) ==
    /\ (InPhase(v, RegisterPlayersId) /\ ev.type = "AddReaction" /\ ev.emoji = "Entry")
          => Len(v.state.x.players) < MaxList
    /\ (InPhase(v, SelectRolesId) /\ ev.type = "AddReaction" /\ ev.emoji = "NextPage")
          => v.state.x.role_page < MaxPage
    /\ (InPhase(v, SelectRolesId) /\ ev.type = "AddReaction" /\ ev.emoji = "PreviousPage")
          => v.state.x.role_page > 0 - MaxPage

\* a round has been started in RoundGuild: its machine is registered under
\* its entry message and the guild's reservation names that message
RoundInit ==
    /\ map = {RoundMsg}
    /\ mach = [i \in RoundIds |-> IF i = RoundMsg THEN create(RoundGuild, RoundMsg)
                                                   ELSE NoMachine]
    /\ lock = [i \in RoundIds |-> "free"]
    /\ running_rounds = Insert(<< >>, RoundGuild, Some(RoundMsg))
    /\ rounds_lock = "free"
    /\ queue = << >>
    /\ nextId = RoundMsg
    /\ pc = [t \in Workers |-> "idle"]
    /\ loc = [t \in Workers |-> NoLoc]
    /\ npc = "recv"
    /\ nloc = NoLoc
    /\ sm = NewNext(1)
    /\ ret = None
    /\ ncalls = 0
    /\ latchedAt = 0
    /\ StoreStart
    /\ obs = << >>
    /\ count_queue = << >>
    /\ call = NoCall

\* the reactions that only a moderator may use, and the one that the event
\* is when it comes from somebody else
Commands == {"Confirm", "NextPage", "PreviousPage", "Stop"}
Refused(ev) ==
    IF ev.type = "AddReaction" /\ ev.emoji \in Commands /\ ev.user_id \notin mods
    THEN Some(ev.emoji)
    ELSE None

\* the effects of one transition call on the shared queues and the registry
AfterCall(m, d) ==
    LET popped == IF d.did.pop THEN Tail(count_queue) ELSE count_queue
        fresh == (nextId + 1)..(nextId + Len(d.did.subs))
    IN /\ count_queue' = IF d.did.push # None THEN Append(popped, d.did.push.x) ELSE popped
       /\ queue' = IF d.did.notify
                   THEN Append(queue, <<RoundMsg, RoundGuild>>)
                   ELSE queue
       /\ nextId' = nextId + Len(d.did.subs)
       /\ mach' = [i \in RoundIds |->
                     IF i = m THEN d.msm
                     ELSE IF i \in fresh
                          THEN create_role_sm(RoundGuild, i, d.did.subs[i - nextId])
                          ELSE mach[i]]

\* SMMAP.update(message_id, context) for a platform event: get, lock,
\* update_inner. The notifier that meets the held lock meanwhile puts its
\* notification back, which leaves the queue of this one round as it was
Update(m, ev, env, wraps, rng) ==
    /\ m \in map
    /\ WithinBounds(View(mach[m]), ev)
    /\ LET d == Deliver(mach[m], ev, env, wraps, rng, count_queue)
           fresh == (nextId + 1)..(nextId + Len(d.did.subs))
       IN /\ AfterCall(m, d)
          /\ IF IsTerminal(d.res)
             THEN /\ map' = (map \cup fresh) \ {m}
                  /\ running_rounds' = RemoveReservation(running_rounds, mach[m].guild_id,
                                                         mach[m].message_id)
             ELSE /\ map' = map \cup fresh
                  /\ UNCHANGED running_rounds
          /\ call' = [op |-> "update", msg |-> m, res |-> d.res, refused |-> Refused(ev)]
    /\ UNCHANGED <<lock, rounds_lock, pc, loc, npc, nloc, libvars, storevars>>

\* background_notifier: one turn of the loop with the machine's lock free
NotifierDeliver(env, wraps, rng) ==
    /\ npc = "recv"
    /\ queue # << >>
    /\ LET m == Head(queue)[1]
       IN IF m \notin map
          THEN /\ queue' = Tail(queue)
               /\ call' = [op |-> "notify", msg |-> m, res |-> None, refused |-> None]
               /\ UNCHANGED <<mach, count_queue, nextId, npc>>
          ELSE LET d == Deliver(mach[m], Notify, env, wraps, rng, count_queue)
               IN /\ mach' = [mach EXCEPT ![m] = d.msm]
                  /\ queue' = Tail(queue)
                  /\ count_queue' = IF d.did.pop THEN Tail(count_queue) ELSE count_queue
                  /\ npc' = IF d.res = Panic THEN "dead" ELSE npc
                  /\ call' = [op |-> "notify", msg |-> m, res |-> d.res, refused |-> None]
                  /\ UNCHANGED nextId
    /\ UNCHANGED <<map, lock, running_rounds, rounds_lock, pc, loc, nloc, libvars, storevars>>

\* the collaborators' outcome decides a call only where the handler gets as
\* far as calling them (a moderator's Confirm or Stop), the overflow behaviour
\* only where a page is turned
EnvsOf(ev) ==
    IF ev.type = "AddReaction" /\ ev.emoji \in {"Confirm", "Stop"} /\ ev.user_id \in mods
    THEN Envs ELSE {"ok"}
WrapsOf(ev) ==
    IF ev.type = "AddReaction" /\ ev.emoji \in {"NextPage", "PreviousPage"}
                               /\ ev.user_id \in mods
    THEN BOOLEAN ELSE {FALSE}
\* no platform event gets as far as drawing random numbers
NoRng == << >>

PlatformEvent ==
    \E m \in RoundIds : \E ev \in PlatformEvents(m) :
        \E env \in EnvsOf(ev), wraps \in WrapsOf(ev) : Update(m, ev, env, wraps, NoRng)
NotifierTurn ==
    \E env \in Envs, rng \in Rngs : NotifierDeliver(env, FALSE, rng)

RoundNext == PlatformEvent \/ NotifierTurn

SpecRound == RoundInit /\ [][RoundNext]_vars
\* a turn of the notifier's loop as the queue shows it: of the steps of
\* RoundNext, only NotifierTurn takes the head off the queue
NotifierTakes == npc = "recv" /\ queue # << >> /\ queue' = Tail(queue)
\* the notifier's task is scheduled whenever it has something to do
SpecRoundLive == SpecRound /\ WF_queue(NotifierTakes)

(***************************************************************************)
(* Properties of the round machine                                         *)
(***************************************************************************)
\* the round's machine, its leaves and what a caller sees of it
Round == mach[RoundMsg]
RegisterPlayersLeaf == Round.sm.first.first.first
SelectRolesLeaf == Round.sm.first.first.second
RoleCountsLeaf == Round.sm.first.second
RunningLeaf == Round.sm.second
RoundView == View(Round)

PendingRoles == RoundView.state.x.role_messages
Counted == RoundView.state.x.roles
\* the role whose count this step takes from the count queue, if it takes one
Taken ==
    IF count_queue # <<>> /\ count_queue' = Tail(count_queue)
    THEN {Head(count_queue)[1]}
    ELSE {}

\* C11: the round never enters Running (the specification's Ongoing) while a
\* role is still waiting for its headcount. A call that finds several roles
\* waiting takes at most one count from the queue, removes exactly that role
\* from the waiting ones, records its count and stays in RoleCounts with
\* everything else as it was; the round leaves RoleCounts for Running only in
\* a call that finds no role waiting or that resolves the last one.
C11_BarrierSafety ==
    [][InPhase(RoundView, RoleCountsId) =>
         LET after == View(mach'[RoundMsg])
         IN /\ (after.phase = RunningId)
                 => /\ PendingRoles \ Taken = {}
                    /\ RoleCountsLeaf'.state.x.role_messages = {}
            /\ (Cardinality(PendingRoles) > 1)
                 => /\ after.phase = RoleCountsId
                    /\ after.state # None
                    /\ after.state.x.role_messages = PendingRoles \ Taken
                    /\ after.state.x.players = RoundView.state.x.players
                    /\ DOMAIN after.state.x.roles = DOMAIN Counted \cup Taken
                    /\ \A r \in DOMAIN Counted \ Taken :
                         after.state.x.roles[r] = Counted[r]
                    /\ \A r \in Taken :
                         after.state.x.roles[r] = Head(count_queue)[2]]_vars

\* two roles were waiting for their headcounts, both have been resolved one
\* after the other, and the notifier's call that resolved the second one has
\* just moved the round to Running
C11_Witness ==
    /\ call.op = "notify" /\ call.msg = RoundMsg /\ call.res = NoTransition
    /\ RoundView.phase = RunningId
    /\ RunningLeaf.state = None
    /\ SelectRolesLeaf.state.x.selected_roles = {"A", "M"}
    /\ RoleCountsLeaf.state.x.role_messages = {}
    /\ DOMAIN RoleCountsLeaf.state.x.roles = {"A", "M"}
    /\ count_queue = <<>>

\* C13: a call on the round in one of its phases that fails while moving to
\* the next phase (it returns Error) leaves the round registered, in the
\* phase it was in and with that phase's data, so that the same stimulus can
\* be delivered to that phase again.
C13_FailedTransitionStays ==
    [][(/\ call'.msg = RoundMsg
        /\ call'.op \in {"update", "notify"}
        /\ RoundView.phase # NoPhase /\ RoundView.state # None
        /\ call'.res.t = "Error")
       => /\ RoundMsg \in map'
          /\ View(mach'[RoundMsg]) = RoundView]_vars

\* every headcount that the RoleCounts phase waits for has been given: no
\* role is waiting, or the count of each waiting role is on the count queue
AllResolved ==
    /\ RoundMsg \in map
    /\ InPhase(RoundView, RoleCountsId)
    /\ \A r \in PendingRoles : \E i \in 1..Len(count_queue) : count_queue[i][1] = r
\* the round has left RoleCounts: it is in Running, or it has latched (the
\* Error of a failed start, or the end of the round)
LeftRoleCounts == RoundView.phase \in {RunningId, NoPhase}

\* C12: with the notifier's loop scheduled fairly, once every headcount is
\* resolved (none was asked for, or each one asked for has been given) the
\* round eventually leaves RoleCounts for Running or reports Error, without
\* a further platform event.
C12_BarrierLiveness == AllResolved ~> LeftRoleCounts

\* the same holds as long as no call of the notifier panics
BarrierLivenessUnlessPanic == AllResolved ~> (LeftRoleCounts \/ npc = "dead")

\* the leaf machines of an instance
RECURSIVE Leaves(_)
Leaves(m) ==
    IF m.kind = "Chained" THEN Leaves(m.first) \cup Leaves(m.second) ELSE {m}
\* the phase `id` of machine msm has completed: its leaf has latched Done
Completed(msm, id) == \E l \in Leaves(msm.sm) : l.id = id /\ l.done.t = "Done"
\* the round's phases in their order; RegisterPlayersId .. RunningId are 1 .. 4
PhaseOrder == <<RegisterPlayersId, SelectRolesId, RoleCountsId, RunningId>>

\* C21: the phase of the round's machine only advances along RegisterPlayers,
\* SelectRoles, RoleCounts, Running and then the end of the round (Done, or
\* a reported Error): no step moves it back, a step advances it by at most
\* one phase, an ended round stays ended, and a phase is entered only when
\* every phase before it has completed with Done.
C21_PhaseOrder ==
    [][LET p == RoundView.phase
           q == View(mach'[RoundMsg]).phase
       IN /\ p = NoPhase => q = NoPhase
          /\ p # NoPhase => q \in {p, NoPhase} \cup ({p + 1} \cap DOMAIN PhaseOrder)
          /\ q # NoPhase =>
                \A j \in 1..(q - 1) : Completed(mach'[RoundMsg], PhaseOrder[j])]_vars
\* a round has gone through every phase and ended with Done
C21_Witness ==
    /\ Round.sm.result.tag = "Second"
    /\ Round.sm.result.res.t = "Done"
    /\ \A j \in DOMAIN PhaseOrder : Completed(Round, PhaseOrder[j])

\* the headcount sub-machines: every machine but the round's
RoleMsgs == RoundIds \ {RoundMsg}
\* the content of a reply parses as an integer >= 1
PositiveInteger(content) ==
    parse_usize(content) # None /\ parse_usize(content).x >= 1

\* C22: a reply to a pending headcount question resolves it only if its
\* content parses as a positive integer (>= 1), and then that number is what
\* is recorded (pushed to the count queue) for the role; a reply that is not a
\* number, or is 0, records nothing and leaves the question pending (the
\* sub-machine stays registered as it was).
C22_HeadcountReplies ==
    [][\A m \in RoleMsgs, u \in Users, c \in Contents :
         (/\ m \in map
          /\ InPhase(View(mach[m]), RoleCountId)
          /\ Update(m, Reply(u, c), "ok", FALSE, NoRng))
         => /\ (count_queue' # count_queue)
                 => /\ PositiveInteger(c)
                    /\ count_queue' = Append(count_queue,
                                             <<View(mach[m]).state.x.role, parse_usize(c).x>>)
            /\ ~PositiveInteger(c)
                 => /\ count_queue' = count_queue
                    /\ m \in map'
                    /\ View(mach'[m]) = View(mach[m])]_vars

\* C23: when the round enters RoleCounts, the set of roles waiting for a
\* headcount is exactly the set of selected roles flagged multi-player (one
\* question is registered for each), the headcount map holds exactly the
\* other selected roles, each with headcount 1, and the players are the ones
\* of SelectRoles.
C23_RoleCountsInit ==
    [][(/\ InPhase(RoundView, SelectRolesId)
        /\ View(mach'[RoundMsg]).phase = RoleCountsId)
       => LET selected == RoundView.state.x.selected_roles
              multi == {r \in selected : multi_player(r)}
              after == View(mach'[RoundMsg]).state.x
          IN /\ after.role_messages = multi
             /\ after.roles = [r \in selected \ multi |-> 1]
             /\ after.players = RoundView.state.x.players
             /\ map' \ map \subseteq RoleMsgs
             /\ Cardinality(map' \ map) = Cardinality(multi)
             /\ {mach'[i].sm.state.x.role : i \in map' \ map} = multi]_vars
\* the round has just entered RoleCounts with every role selected: the two
\* multi-player roles wait for their headcounts, the third one counts 1
C23_Witness ==
    /\ call.op = "update" /\ call.msg = RoundMsg
    /\ RoleCountsLeaf.state = None
    /\ RoundView.phase = RoleCountsId
    /\ RoundView.state.x.role_messages = {r \in all_roles : multi_player(r)}
    /\ Cardinality(RoundView.state.x.role_messages) = 2
    /\ RoundView.state.x.roles = [r \in {r \in all_roles : ~multi_player(r)} |-> 1]
    /\ DOMAIN RoundView.state.x.roles # {}

(***************************************************************************)
(* The round with notifications that are sent more than once               *)
(***************************************************************************)
\* NOTIFY_SM_QUEUE.notify(round_msg_id, round_guild_id) once more: a
\* notification for the round beside the ones its own steps send, from
\* RoleCounts on (no notification is sent for a round before that)
DuplicateNotify ==
    /\ npc = "recv"
    /\ queue = << >>
    /\ Phase(Round) \notin {RegisterPlayersId, SelectRolesId}
    /\ queue' = <<<<RoundMsg, RoundGuild>>>>
    /\ call' = [op |-> "send", msg |-> RoundMsg, res |-> None, refused |-> None]
    /\ UNCHANGED <<map, mach, lock, running_rounds, rounds_lock, nextId, pc, loc,
                   npc, nloc, libvars, storevars, count_queue>>

NotifyNext == RoundNext \/ DuplicateNotify
SpecNotify == RoundInit /\ [][NotifyNext]_vars

\* a Notify for the round has nothing to do: the round is gone or has ended,
\* it is past the barrier (Running), or it waits in RoleCounts for a
\* headcount that has not been given yet
Redundant ==
    \/ RoundMsg \notin map
    \/ RoundView.phase \in {RunningId, NoPhase}
    \/ /\ InPhase(RoundView, RoleCountsId)
       /\ PendingRoles # {}
       /\ count_queue = << >>

\* C24: a Notify delivered to the round when it has nothing to do (the
\* barrier of RoleCounts has been passed, the round has ended, or the
\* notification is a duplicate that finds no headcount to take) changes
\* neither the phase nor the phase's data, nor the registry, the reservation,
\* the count queue or any other machine; its result is NoTransition or the
\* result the ended round has latched.
C24_RedundantNotify ==
    [][(/\ call'.op = "notify"
        /\ call'.msg = RoundMsg
        /\ Redundant)
       => /\ View(mach'[RoundMsg]) = RoundView
          /\ map' = map
          /\ running_rounds' = running_rounds
          /\ count_queue' = count_queue
          /\ queue' = Tail(queue)
          /\ nextId' = nextId
          /\ \A i \in RoleMsgs : mach'[i] = mach[i]
          /\ call'.res \in {None, NoTransition}
                \/ (RoundView.phase = NoPhase /\ IsTerminal(call'.res))]_vars
\* a Notify has just been delivered to the round in Running, after an
\* earlier call had reached the Running phase's function
C24_Witness ==
    /\ call.op = "notify" /\ call.msg = RoundMsg /\ call.res = NoTransition
    /\ RoundMsg \in map
    /\ RoundView.phase = RunningId
    /\ RunningLeaf.state # None

\* the users on the list of players that view v shows
Participants(v) == {v.state.x.players[i] : i \in 1..Len(v.state.x.players)}

\* C25: in RegisterPlayers, an AddReaction(Entry) by user u makes u a
\* participant, and after a RemoveReaction(Entry) by u, u is not on the list
\* of participants any more, whatever add and remove events came before.
C25_Membership ==
    [][\A u \in Users :
         /\ (/\ InPhase(RoundView, RegisterPlayersId)
             /\ Update(RoundMsg, AddReaction(u, "Entry"), "ok", FALSE, NoRng))
            => u \in Participants(View(mach'[RoundMsg]))
         /\ (/\ InPhase(RoundView, RegisterPlayersId)
             /\ Update(RoundMsg, RemoveReaction(u, "Entry"), "ok", FALSE, NoRng))
            => u \notin Participants(View(mach'[RoundMsg]))]_vars

\* the selection of roles that view v of the round in SelectRoles shows
Selected(v) == v.state.x.selected_roles
\* the role an emoji is configured for, as a set (empty for any other emoji)
RolesOf(e) == {r \in all_roles : emoji(r) = e}
\* one reaction on the round in SelectRoles, when the users in `adders` may
\* add roles: a role's emoji added by one of them puts the role into the
\* selection, removed by a moderator takes it out; every other reaction that
\* returns and leaves the round in SelectRoles keeps the selection
Toggling(adders) ==
    \A u \in Users, e \in Emojis :
        LET after == View(mach'[RoundMsg])
        IN /\ (/\ InPhase(RoundView, SelectRolesId)
               /\ \E env \in EnvsOf(AddReaction(u, e)), wraps \in WrapsOf(AddReaction(u, e)) :
                     Update(RoundMsg, AddReaction(u, e), env, wraps, NoRng)
               /\ InPhase(after, SelectRolesId)
               /\ call'.res # Panic)
              => Selected(after) = IF u \in adders
                                   THEN Selected(RoundView) \cup RolesOf(e)
                                   ELSE Selected(RoundView)
           /\ (/\ InPhase(RoundView, SelectRolesId)
               /\ Update(RoundMsg, RemoveReaction(u, e), "ok", FALSE, NoRng))
              => /\ InPhase(after, SelectRolesId)
                 /\ Selected(after) = IF u \in mods
                                      THEN Selected(RoundView) \ RolesOf(e)
                                      ELSE Selected(RoundView)

MaxRoleCount == 36
MaxPageNo == 2

MAX_REACTIONS == 17

\* Reactions::PreviousPage, NextPage, Confirm and Reactions::Custom(emoji)
Reaction(kind) == [kind |-> kind]
Custom(e) == [kind |-> "Custom", emoji |-> e]
\* WereWolfRole::to_emoji: every role has an emoji of its own
to_emoji(role) == <<"emoji", role>>
\* a list of n different roles
RoleList(n) == [i \in 1..n |-> i]

\* a slip in is_last_page: the page after a full last page counts as a page
is_last_page_full(role_count, page) ==
    IF role_count = 0 THEN TRUE ELSE page >= role_count \div MAX_REACTIONS

\* is_last_page(role_count, page)
is_last_page(role_count, page) ==
    IF role_count = 0 THEN TRUE ELSE page >= (role_count - 1) \div MAX_REACTIONS

\* the loop of reactions: for raw_index in 0..MAX_REACTIONS, until
\* roles.get(index) is None; roles[index] of the slice is roles[index + 1] here
RECURSIVE RoleReactions(_, _, _)
RoleReactions(roles, page, raw_index) ==
    IF raw_index >= MAX_REACTIONS
    THEN << >>
    ELSE LET index == raw_index + page * MAX_REACTIONS
         IN IF index >= Len(roles)
            THEN << >>
            ELSE <<Custom(to_emoji(roles[index + 1]))>>
                   \o RoleReactions(roles, page, raw_index + 1)

\* reactions(roles, page)
reactions(roles, page) ==
    (IF page > 0 THEN <<Reaction("PreviousPage")>> ELSE << >>)
      \o RoleReactions(roles, page, 0)
      \o (IF ~is_last_page(Len(roles), page) THEN <<Reaction("NextPage")>> ELSE << >>)
      \o <<Reaction("Confirm")>>

\* a caller is about to ask for the reactions of some page of some role list
PagesInit ==
    /\ RegStart
    /\ sm = NewNext(1)
    /\ ret = None
    /\ ncalls = 0
    /\ latchedAt = 0
    /\ StoreStart
    /\ obs = << >>
    /\ count_queue = << >>
    /\ call \in {[op |-> "reactions", roles |-> RoleList(n), page |-> p,
                  result |-> Pending] : n \in 0..MaxRoleCount, p \in 0..MaxPageNo}

\* cfg_reactions::reactions(roles, page)
reactions_call ==
    /\ call.op = "reactions"
    /\ call.result = Pending
    /\ call' = [call EXCEPT !.result = Some(reactions(call.roles, call.page))]
    /\ UNCHANGED <<libvars, storevars, regvars, count_queue>>

PagesNext == reactions_call

SpecPages == PagesInit /\ [][PagesNext]_vars

\* the smaller of two numbers
Min(a, b) == IF a <= b THEN a ELSE b
\* what the reactions of page p of `roles` are to be: PreviousPage iff p > 0,
\* the reactions of roles[17p .. min(len, 17(p+1))] in order (positions
\* 17p + 1 .. min(len, 17(p+1)) of the sequence), NextPage iff some role has
\* an index >= 17(p+1), Confirm
ExpectedReactions(roles, p) ==
    LET from == MAX_REACTIONS * p + 1
        to == Min(Len(roles), MAX_REACTIONS * (p + 1))
        shown == [i \in 1..(IF to >= from THEN to - from + 1 ELSE 0) |->
                    Custom(to_emoji(roles[from + i - 1]))]
    IN (IF p > 0 THEN <<Reaction("PreviousPage")>> ELSE << >>)
         \o shown
         \o (IF \E i \in 0..(Len(roles) - 1) : i >= MAX_REACTIONS * (p + 1)
             THEN <<Reaction("NextPage")>> ELSE << >>)
         \o <<Reaction("Confirm")>>

\* C27: for a role list and a page p, with page size 17, reactions(roles, p)
\* is PreviousPage (iff p > 0), then the reactions of
\* roles[17p .. min(len, 17(p+1))] in order, then NextPage (iff some role has
\* an index >= 17(p+1)), then Confirm; 20 roles give 17 roles, NextPage and
\* Confirm on page 0, and PreviousPage, 3 roles and Confirm on page 1.
C27_Pagination ==
    (call.op = "reactions" /\ call.result # Pending)
    => /\ call.result = Some(ExpectedReactions(call.roles, call.page))
       /\ (Len(call.roles) = 20 /\ call.page = 0)
            => /\ Len(call.result.x) = 19
               /\ \A i \in 1..17 : call.result.x[i] = Custom(to_emoji(call.roles[i]))
               /\ call.result.x[18] = Reaction("NextPage")
               /\ call.result.x[19] = Reaction("Confirm")
       /\ (Len(call.roles) = 20 /\ call.page = 1)
            => call.result.x = <<Reaction("PreviousPage"),
                               Custom(to_emoji(call.roles[18])),
                               Custom(to_emoji(call.roles[19])),
                               Custom(to_emoji(call.roles[20])),
                               Reaction("Confirm")>>
\* the reactions of page 1 of 35 roles have been computed: PreviousPage, 17
\* roles, NextPage, Confirm
C27_Witness ==
    /\ call.op = "reactions" /\ call.result # Pending
    /\ Len(call.roles) = 35 /\ call.page = 1
    /\ Len(call.result.x) = 20
    /\ call.result.x[1] = Reaction("PreviousPage")
    /\ call.result.x[19] = Reaction("NextPage")

(***************************************************************************)
(* Adding role configs: the add-role command (src/commands/add_role.rs),   *)
(* the confirm step of its dialogue (src/commands/add_role/sm.rs) and the  *)
(* storage behind them (src/storage.rs, src/storage/cache.rs)              *)
(***************************************************************************)
\* number of role configs stored, the ones being added included
MaxStored == 3

\* the names and emojis that the users give their roles
ConfigNames == {"n1", "n2"}
ConfigEmojis == {"e1", "e2"}
\* WereWolfRoleConfig::new(name, emoji, ..)
NewConfig(name, e) == [name |-> name, emoji |-> e]

\* r.iter().any(|c| c.name() == name), r.iter().any(|c| c.emoji() == emoji)
AnyName(r, name) == \E i \in 1..Len(r) : r[i].name = name
AnyEmoji(r, e) == \E i \in 1..Len(r) : r[i].emoji = e

\* Cache::set_role: push to the guild's list, or insert a list of one
cache_set_role(c, role) ==
    IF c = None THEN Some(<<role>>) ELSE Some(Append(c.x, role))

\* Cache::remove_role: nothing without an entry or without a role of that
\* name; else the first role of that name leaves the list
FirstNamed(r, name) ==
    CHOOSE i \in 1..Len(r) :
        r[i].name = name /\ \A j \in 1..(i - 1) : r[j].name # name
RemoveAt(r, i) == SubSeq(r, 1, i - 1) \o SubSeq(r, i + 1, Len(r))
cache_remove_role(c, name) ==
    IF c = None THEN c
    ELSE IF ~AnyName(c.x, name) THEN c
    ELSE Some(RemoveAt(c.x, FirstNamed(c.x, name)))

\* DiscordStorage::set_role: one more message in the settings channel. The
\* backend's list is kept in the order in which the channel's messages are
\* iterated, the newest message first.
backend_set_role(b, role) == <<role>> \o b

\* DiscordStorage::remove_role: find_role_message takes the first message of
\* the iteration whose config has the name, and that message is deleted;
\* FindingRole (ok FALSE) if there is none
backend_remove_role(b, name) ==
    IF ~AnyName(b, name) THEN [b |-> b, ok |-> FALSE]
    ELSE [b |-> RemoveAt(b, FirstNamed(b, name)), ok |-> TRUE]

\* Storage::load_roles: the cached list if the guild has one, else the
\* backend's list (`ok` tells whether the backend answers), which is then
\* put into the cache; r is None for Err
load_roles(c, b, ok) ==
    IF c # None THEN [cache |-> c, r |-> c]
    ELSE IF ok THEN [cache |-> Some(b), r |-> Some(b)]
    ELSE [cache |-> c, r |-> None]

\* the check of add_role: the loaded roles hold the name or the emoji already;
\* it is skipped when the roles could not be loaded
Exists(r, name, e) == r # None /\ (AnyName(r.x, name) \/ AnyEmoji(r.x, e))

\* the tasks that are between their check and the end of set_role
Adding == {t \in Workers : pc[t] \in {"a_load", "a_set", "a_backend"}}

\* a user sends the add-role command, or confirms the add-role dialogue
AddRole(t, name, e) ==
    /\ pc[t] = "idle"
    /\ Len(backend) + Cardinality(Adding) < MaxStored
    /\ cache # None => Len(cache.x) + Cardinality(Adding) < MaxStored
    /\ pc' = [pc EXCEPT ![t] = "a_load"]
    /\ loc' = [loc EXCEPT ![t] = NewConfig(name, e)]
    /\ call' = [op |-> "add_role", task |-> t, stored |-> FALSE]
    /\ UNCHANGED <<map, mach, lock, running_rounds, rounds_lock, queue, nextId,
                   npc, nloc, libvars, count_queue, storevars>>

\* storage.load_roles(guild_id).await and the two checks on what it returned
LoadAndCheck(t, ok) ==
    /\ pc[t] = "a_load"
    /\ LET l == load_roles(cache, backend, ok)
       IN /\ cache' = l.cache
          /\ IF Exists(l.r, loc[t].name, loc[t].emoji)
             THEN /\ pc' = [pc EXCEPT ![t] = "idle"]
                  /\ loc' = [loc EXCEPT ![t] = NoLoc]
             ELSE /\ pc' = [pc EXCEPT ![t] = "a_set"]
                  /\ UNCHANGED loc
    /\ call' = [op |-> "load_roles", task |-> t, stored |-> FALSE]
    /\ UNCHANGED <<map, mach, lock, running_rounds, rounds_lock, queue, nextId,
                   npc, nloc, libvars, count_queue, backend>>

\* Storage::set_role: self.cache.set_role(guild, role.clone())
SetRoleCache(t) ==
    /\ pc[t] = "a_set"
    /\ cache' = cache_set_role(cache, loc[t])
    /\ pc' = [pc EXCEPT ![t] = "a_backend"]
    /\ call' = [op |-> "cache.set_role", task |-> t, stored |-> TRUE]
    /\ UNCHANGED <<map, mach, lock, running_rounds, rounds_lock, queue, nextId,
                   loc, npc, nloc, libvars, count_queue, backend>>

\* Storage::set_role: self.backend.set_role(guild, role).await, which sends
\* one more message to the settings channel, or fails
SetRoleBackend(t, ok) ==
    /\ pc[t] = "a_backend"
    /\ backend' = IF ok THEN backend_set_role(backend, loc[t]) ELSE backend
    /\ pc' = [pc EXCEPT ![t] = "idle"]
    /\ loc' = [loc EXCEPT ![t] = NoLoc]
    /\ call' = [op |-> "backend.set_role", task |-> t, stored |-> ok]
    /\ UNCHANGED <<map, mach, lock, running_rounds, rounds_lock, queue, nextId,
                   npc, nloc, libvars, count_queue, cache>>

StoreNext ==
    \E t \in Workers :
        \/ \E name \in ConfigNames, e \in ConfigEmojis : AddRole(t, name, e)
        \/ \E ok \in BOOLEAN : LoadAndCheck(t, ok)
        \/ SetRoleCache(t)
        \/ \E ok \in BOOLEAN : SetRoleBackend(t, ok)

SpecStore == Init /\ [][StoreNext]_vars

\* no two configs of the list share a name, and no two share an emoji
UniqueConfigs(r) ==
    \A i, j \in 1..Len(r) :
        i # j => (r[i].name # r[j].name /\ r[i].emoji # r[j].emoji)

\* C28: after any sequence and any interleaving of add-role operations for a
\* guild, no two role configs stored for it (in the cache that load_roles
\* answers from, or in the backend) share a name, and no two share an emoji.
C28_RoleUniqueness ==
    /\ UniqueConfigs(backend)
    /\ cache # None => UniqueConfigs(cache.x)

(***************************************************************************)
(* C29. WithState threading: whenever the wrapped transition function of a *)
(* WithState runs again, the state it is handed is exactly the state it    *)
(* handed back on its previous run, also when that run returned            *)
(* NoTransition; on its first run it is handed the initial state.          *)
(***************************************************************************)
C29_StateThreading ==
    [][\A l \in Leaves(sm) :
          (l.kind = "WithState" /\ obs'[l.id].n = obs[l.id].n + 1) =>
              /\ obs'[l.id].fst = l.state.x
              /\ obs[l.id].n > 0 => obs'[l.id].fst = obs[l.id].rst]_vars

\* a WithState ran twice, the first run returned NoTransition and handed back
\* a state other than the one it was handed
C29_Witness ==
    \E l \in Leaves(sm) :
        /\ l.kind = "WithState"
        /\ obs[l.id].n = 2
        /\ obs[l.id].fst = 1
        /\ l.done = None
        /\ ncalls >= 2

(***************************************************************************)
(* The library instance with transition functions that can panic: the      *)
(* functions of the round do (an unwrap of a failed lookup, `role_page -=  *)
(* 1` at page 0 with overflow checks), and the caller's task ends while    *)
(* the instance stays in the registry and is called again.                 *)
(***************************************************************************)
\* a transition call that reaches a WithLazyState whose function panics: the
\* state is initialised if there is none, taken, and not put back
LazyPanics ==
    /\ ncalls < MaxCalls
    /\ \E ctx \in Ctxs, arg \in Vals :
         LET a == Active(sm, arg)
         IN /\ a # NoLeaf
            /\ a.leaf.x.kind = "WithLazyState"
            /\ sm' = Unwind(sm)
            /\ obs' = ApplyEvents(obs,
                        (IF a.leaf.x.state = None
                         THEN <<InitEv(a.leaf.x.id, a.arg)>> ELSE << >>)
                        \o <<FnEv(a.leaf.x.id, ctx, a.arg, LeafState(a).x)>>)
    /\ ret' = Panic
    /\ ncalls' = ncalls + 1
    /\ UNCHANGED <<latchedAt, regvars, roundvars, storevars>>

LazyNext == Call \/ LazyPanics

SpecLazy == LibInit /\ [][LazyNext]_vars

(***************************************************************************)
(* C30. WithLazyState initialisation: the init function runs exactly once, *)
(* in the first transition call that reaches the machine, with that call's *)
(* argument and before the transition function; in every later call the    *)
(* function is handed the state it handed back before and the init         *)
(* function does not run.                                                  *)
(***************************************************************************)
C30_InitOnce ==
    [][\A l \in Leaves(sm) :
          (l.kind = "WithLazyState" /\ obs'[l.id].n = obs[l.id].n + 1) =>
              IF obs[l.id].n = 0
              THEN /\ obs[l.id].inits = 0
                   /\ obs'[l.id].inits = 1
                   /\ obs'[l.id].initarg = obs'[l.id].farg
                   /\ obs'[l.id].fst = InitFn(obs'[l.id].farg)
              ELSE /\ obs'[l.id].inits = obs[l.id].inits
                   /\ obs'[l.id].fst = obs[l.id].rst]_vars

(***************************************************************************)
(* The role-selection message of the SelectRoles phase: the page of the    *)
(* role list that the phase is on and the reactions that the message       *)
(* carries, for role lists of every length up to MaxRoleCount.             *)
(***************************************************************************)
\* GeneralWerewolfState<SelectRoles>::update_msg: the reactions it puts on
\* the message (roles::reactions(&self.inner.all_roles, 0))
update_msg(roles) == reactions(roles, 0)

\* the phase has just been entered (from_first: page 0, update_msg)
SelectInit ==
    /\ RegStart
    /\ sm = NewNext(1)
    /\ ret = None
    /\ ncalls = 0
    /\ latchedAt = 0
    /\ StoreStart
    /\ obs = << >>
    /\ count_queue = << >>
    /\ call \in {[op |-> "select_roles",
                  roles |-> RoleList(n),
                  initial |-> from_first([players |-> <<"u1">>], "ok").x,
                  state |-> from_first([players |-> <<"u1">>], "ok").x,
                  posted |-> update_msg(RoleList(n)),
                  last |-> "from_first"] : n \in 0..MaxRoleCount}

\* a NextPage or PreviousPage reaction reaches the phase. A panic of the
\* function loses the state, and the next call starts from the initial one
\* again. Pages are kept between UsizeMax and MaxPageNo
TurnPage ==
    /\ call.op = "select_roles"
    /\ \E u \in Users, e \in {"NextPage", "PreviousPage"}, wraps \in BOOLEAN :
         /\ e = "NextPage" => call.state.role_page < MaxPageNo
         /\ e = "PreviousPage" => call.state.role_page >= 0
         /\ LET did == SelectRolesFn(AddReaction(u, e), call.state, "ok", wraps)
            IN call' = IF did.panic
                       THEN [call EXCEPT !.state = call.initial, !.last = "panic"]
                       ELSE [call EXCEPT !.state = did.st,
                                         !.posted = IF did.update_msg
                                                    THEN update_msg(call.roles) ELSE @,
                                         !.last = IF did.update_msg THEN e ELSE "refused"]
    /\ UNCHANGED <<libvars, storevars, regvars, count_queue>>

SelectNext == TurnPage

SpecSelect == SelectInit /\ [][SelectNext]_vars

\* the change of the page that a reaction stands for
PageStep(e) == IF e = "NextPage" THEN 1 ELSE -1

\* C31: a moderator's NextPage (PreviousPage) reaction in the role selection
\* changes the page by +1 (-1), and the reactions on the role-selection
\* message afterwards are the reaction list of that new page.
C31_Repagination ==
    [][\A e \in {"NextPage", "PreviousPage"} :
          (call'.last = e /\ call'.state.role_page >= 0) =>
              /\ call'.state.role_page = call.state.role_page + PageStep(e)
              /\ call'.posted = reactions(call.roles, call'.state.role_page)]_vars

(***************************************************************************)
(* C32. When a machine completes whose message id is not the one that the  *)
(* group's reservation names (a headcount sub-machine of the round), only  *)
(* that machine's registry entry goes away: the reservations stay as they  *)
(* are, and while the round's reservation is there reserve_running_game    *)
(* for the group still fails.                                              *)
(***************************************************************************)
C32_ForeignCompletion ==
    [][\A m \in RoundIds :
          (/\ m \in map
           /\ m \notin map'
           /\ ~Reserves(running_rounds, mach[m].guild_id, m)) =>
              /\ map \ map' = {m}
              /\ running_rounds' = running_rounds
              /\ Reserves(running_rounds, RoundGuild, RoundMsg) =>
                    ~reserve_running_game(running_rounds', RoundGuild).ok]_vars

\* a headcount sub-machine has just completed while the round is registered
\* and reserved
C32_Witness ==
    /\ call.op = "update"
    /\ call.msg # RoundMsg
    /\ call.res = Done(Unit)
    /\ call.msg \notin map
    /\ RoundMsg \in map
    /\ Reserves(running_rounds, RoundGuild, RoundMsg)
    /\ mach[call.msg].guild_id = RoundGuild

(***************************************************************************)
(* C33. Lock discipline of the registry                                    *)
(***************************************************************************)
\* where a task can be while it holds the lock of running_rounds: between
\* taking it and the check or update that releases it
UnderRoundsLock == {"r_check", "r_insert", "m_set", "cleanup"}

NoTask == "none"
\* the task that t waits for: the holder of the lock that t's lock().await is
\* suspended on (the notifier uses try_lock and never waits)
WaitsFor(t) ==
    IF t \notin Workers THEN NoTask
    ELSE IF pc[t] = "u_lock" /\ lock[loc[t].msg] # "free" THEN lock[loc[t].msg]
    ELSE IF pc[t] \in {"m_lock", "rlock"} /\ rounds_lock # "free" THEN rounds_lock
    ELSE NoTask

\* following the waits from t for at most n tasks ends at a task that runs
RECURSIVE WaitEnds(_, _)
WaitEnds(t, n) ==
    IF WaitsFor(t) = NoTask THEN TRUE
    ELSE IF n = 0 THEN FALSE
    ELSE WaitEnds(WaitsFor(t), n - 1)

\* C33: the lock of the group reservations is held only for the reservation
\* check or update: its holder is never at a collaborator (network) call and
\* never waits for a lock, the notifier never takes it, and the waits of the
\* reserve/mark callers, the update callers and the notifier form no cycle.
C33_LockDiscipline ==
    /\ rounds_lock \in Workers \cup {"free"}
    /\ \A t \in Workers :
          /\ rounds_lock = t => (pc[t] \in UnderRoundsLock /\ WaitsFor(t) = NoTask)
          /\ WaitEnds(t, Cardinality(Workers))

\* one task holds the reservation lock for its check while another, which
\* holds a machine's lock, waits for it
C33_Witness ==
    \E t, u \in Workers :
        /\ rounds_lock = t
        /\ pc[t] \in {"r_check", "m_set"}
        /\ pc[u] = "rlock"
        /\ lock[loc[u].msg] = u
        /\ WaitsFor(u) = t

(***************************************************************************)
(* The registry with callers of unmark_running_game next to the tasks that *)
(* start rounds, deliver events and clean up                               *)
(***************************************************************************)
PendingNext ==
    \/ Next
    \/ \E g \in Guilds, m \in Ids : ApiUnmark(g, m)

SpecPending == Init /\ [][PendingNext]_vars

\* the group's reservation is in the state "message id not yet known"
PendingReservation(rr, g) == g \in DOMAIN rr /\ rr[g] = None

(***************************************************************************)
(* C34. A reservation without a message id is removed by no registry       *)
(* operation: unmark_running_game(guild, m) leaves it for every m, no      *)
(* completion of a machine removes it, only mark_running_game changes it   *)
(* (to the message id); as long as it is there every reserve_running_game  *)
(* for the group fails.                                                    *)
(***************************************************************************)
C34_PendingStays ==
    [][\A g \in Guilds :
          PendingReservation(running_rounds, g) =>
              /\ g \in DOMAIN running_rounds'
              /\ ~PendingReservation(running_rounds', g) =>
                    \E t \in Workers : /\ pc[t] = "m_set"
                                       /\ loc[t].guild = g
                                       /\ running_rounds'[g] = Some(loc[t].msg)
              /\ \A t \in Workers :
                    (pc[t] = "r_check" /\ loc[t].guild = g /\ pc'[t] # "r_check")
                       => pc'[t] = "idle"
              /\ \A m \in Ids : unmark_running_game(running_rounds, g, m) = running_rounds]_vars

\* the caller that reserved has given up, the reservation is still pending,
\* unmark_running_game has been called for the group, and a machine of the
\* group that completed is at its clean-up
C34_Witness ==
    \E g \in Guilds, t \in Workers :
        /\ PendingReservation(running_rounds, g)
        /\ \A u \in Workers : pc[u] \notin {"r_insert", "create", "m_lock", "m_set"}
        /\ call.op = "unmark"
        /\ call.guild = g
        /\ pc[t] = "cleanup"
        /\ mach[loc[t].msg].guild_id = g

(***************************************************************************)
(* C35. Late events                                                        *)
(***************************************************************************)
\* task t holds the lock of a machine that had latched its result before t
\* got the lock: t's event waited while another task completed the machine
Late(t) == pc[t] = "transition" /\ mach[loc[t].msg].sm.done # None

\* C35: an event that waited for a machine's lock while another task drove
\* the machine to Done or Error gets the cached result and no phase logic
\* runs for it (no state change, no sub-machine, no notification); its
\* clean-up removes no other machine's registry entry and leaves a
\* reservation alone that does not name its own message, such as the one a
\* new round of the group has made meanwhile.
C35_LateEvents ==
    [][\A t \in Workers :
          /\ Late(t) =>
                /\ ~AddSub(t)
                /\ \A m \in Ids : ~NotifyCall(t, m)
                /\ pc'[t] # pc[t] =>
                      /\ pc'[t] = "rlock"
                      /\ mach' = mach
                      /\ map' = map \ {loc[t].msg}
                      /\ queue' = queue
          /\ pc[t] \in {"rlock", "cleanup"} /\ pc'[t] # pc[t] =>
                /\ map' = map
                /\ ~Reserves(running_rounds, mach[loc[t].msg].guild_id, loc[t].msg)
                      => running_rounds' = running_rounds]_vars

\* the late event of the first round's machine is at its clean-up while the
\* group's reservation names the message of a new round
C35_Witness ==
    \E t \in Workers, m \in Ids :
        /\ pc[t] = "cleanup"
        /\ loc[t].msg # m
        /\ mach[loc[t].msg].guild_id = mach[m].guild_id
        /\ Reserves(running_rounds, mach[m].guild_id, m)
        /\ loc[t].msg < m
        /\ m \in map

(***************************************************************************)
(* C36. Headcount hand-off                                                 *)
(***************************************************************************)
\* the roles whose headcount sub-machine is registered and waits for a reply
AwaitingReply ==
    {mach[i].sm.state.x.role : i \in {j \in RoleMsgs \cap map : mach[j].sm.done = None}}
\* the roles that have a pair on the count queue
QueuedRoles == {count_queue[i][1] : i \in 1..Len(count_queue)}

\* C36: every (role, count) pair that a headcount sub-machine pushes onto the
\* count queue is popped by the round's machine and recorded as the count of
\* that role before the round leaves RoleCounts. So every pair on the queue
\* has the round registered and in RoleCounts, waiting for that role; no role
\* has two pairs, and none has a pair and a sub-machine that can push another.
C36_HeadcountHandOff ==
    /\ \A r \in QueuedRoles :
          /\ RoundMsg \in map
          /\ InPhase(RoundView, RoleCountsId)
          /\ r \in PendingRoles
    /\ \A i, j \in 1..Len(count_queue) :
          count_queue[i][1] = count_queue[j][1] => i = j
    /\ QueuedRoles \cap AwaitingReply = {}

\* the number of the last page of a list of role_count roles: the first page
\* for which is_last_page holds
LastPage(role_count) ==
    CHOOSE p \in 0..role_count :
        is_last_page(role_count, p) /\ \A q \in 0..(p - 1) : ~is_last_page(role_count, q)

\* C37: whatever NextPage and PreviousPage reactions the role selection has
\* received, its page index is within 0 .. the last page of the role list: it
\* is not below 0, has not wrapped around to the top of the unsigned range
\* (UsizeMax), and is not beyond the last page.
C37_PageBounds ==
    call.op = "select_roles" =>
        /\ call.state.role_page >= 0
        /\ call.state.role_page <= LastPage(Len(call.roles))

(***************************************************************************)
(* The Storage wrapper as its callers see it (src/storage.rs): load_roles, *)
(* set_role and remove_role for one guild, each against a backend whose    *)
(* call may fail.                                                          *)
(***************************************************************************)
\* the role configs that the users can store
Configs == {NewConfig(name, e) : name \in ConfigNames, e \in ConfigEmojis}

\* the lists of at most n role configs
RECURSIVE ConfigLists(_)
ConfigLists(n) ==
    IF n = 0 THEN {<< >>}
    ELSE ConfigLists(n - 1) \cup
         {<<c>> \o r : c \in Configs, r \in {q \in ConfigLists(n - 1) : Len(q) = n - 1}}

\* the set of the configs of a list
ConfigSet(r) == {r[i] : i \in 1..Len(r)}

\* Storage::new in a process that has just started: the cache has no entry,
\* while the settings channel may hold the configs of earlier runs
CacheInit ==
    /\ RegStart
    /\ sm = NewNext(1)
    /\ ret = None
    /\ ncalls = 0
    /\ latchedAt = 0
    /\ cache = None
    /\ backend \in ConfigLists(MaxStored)
    /\ obs = << >>
    /\ count_queue = << >>
    /\ call = NoCall

\* <Storage as StorageBackend>::load_roles
StorageLoadRoles(ok) ==
    /\ LET l == load_roles(cache, backend, ok)
       IN /\ cache' = l.cache
          /\ call' = [op |-> "Storage::load_roles", r |-> l.r, ok |-> l.r # None]
    /\ UNCHANGED <<libvars, regvars, count_queue, backend>>

\* <Storage as StorageBackend>::set_role: the cache first, then the backend,
\* whose result is the wrapper's result
StorageSetRole(role, ok) ==
    /\ Len(backend) < MaxStored
    /\ cache # None => Len(cache.x) < MaxStored
    /\ cache' = cache_set_role(cache, role)
    /\ backend' = IF ok THEN backend_set_role(backend, role) ELSE backend
    /\ call' = [op |-> "Storage::set_role", r |-> None, ok |-> ok]
    /\ UNCHANGED <<libvars, regvars, count_queue>>

\* <Storage as StorageBackend>::remove_role: the cache first, then the
\* backend; `ok` FALSE is a backend call that fails before it deletes
StorageRemoveRole(name, ok) ==
    /\ cache' = cache_remove_role(cache, name)
    /\ LET b == backend_remove_role(backend, name)
       IN /\ backend' = IF ok THEN b.b ELSE backend
          /\ call' = [op |-> "Storage::remove_role", r |-> None, ok |-> ok /\ b.ok]
    /\ UNCHANGED <<libvars, regvars, count_queue>>

CacheNext ==
    \/ \E ok \in BOOLEAN : StorageLoadRoles(ok)
    \/ \E role \in Configs, ok \in BOOLEAN : StorageSetRole(role, ok)
    \/ \E name \in ConfigNames, ok \in BOOLEAN : StorageRemoveRole(name, ok)

SpecCache == CacheInit /\ [][CacheNext]_vars

\* C38: after any sequence of load_roles, set_role and remove_role calls on a
\* guild (set_role before the first load_roles and failing backend calls
\* included), the list that load_roles returns through the wrapper holds the
\* same set of role configs as the backend holds for the guild.
C38_CacheCoherence ==
    (call.op = "Storage::load_roles" /\ call.ok) =>
        ConfigSet(call.r.x) = ConfigSet(backend)

====
